---- MODULE Spec2Model ----
(***************************************************************************)
(* Model of the SQL-log analytics engine of go-demo: the line parser       *)
(* (ParseLine), the stream ingestor (ParseStream) as driven by the upload  *)
(* handler, the record store (InsertBatch) and the anomaly analyzer        *)
(* (Analyze, deriveReasonsAndSuggestions).                                 *)
(*                                                                         *)
(* Go strings are modelled as sequences of one-character strings, so that  *)
(* trimming, lower-casing, substring search and the regular expression     *)
(* lineRE are computed character by character as the code computes them.   *)
(* Error values are modelled by their message prefix; "nil" is no error.   *)
(***************************************************************************)
EXTENDS Integers, Sequences, FiniteSets, TLC

VARIABLES
    store,      \* the DEMO.SQL_LOG table: a sequence of rows in insertion order
    now,        \* the server clock, in units of the 7-day default window
    resp,       \* the result of the last repository call (InsertBatch, Analyze)
    dIn,        \* deriveReasonsAndSuggestions: the record and thresholds passed in
    dOut,       \* deriveReasonsAndSuggestions: the returned (reasons, suggestions)
    pIn,        \* ParseLine: the line passed in, with the record it was formatted from
    pOut,       \* ParseLine: the returned (SQLLog, error)
    lines,      \* Upload: the lines of the uploaded file
    failAt,     \* Upload: index of the line at which the scanner fails (0: never)
    pos,        \* ParseStream: number of lines scanned so far
    pc,         \* ParseStream: position in the scan loop
    ctxDone,    \* ParseStream: whether the request context has been cancelled
    psRet,      \* ParseStream: the returned error ("running" until it returns)
    total,      \* Upload: total counter of the two callbacks
    skipped,    \* Upload: skipped counter of the reject callback
    entries,    \* Upload: records collected by the accept callback
    errs,       \* Upload: bounded list of the rejected lines' errors
    cbLog,      \* ParseStream: the callback invocations so far, in order
    cancelAt,   \* how many lines were scanned and forwarded when the context was cancelled
    fIn,        \* Analyze defaults: the ReportFilter passed in, with the clock
    fOut,       \* Analyze defaults: the effective ReportFilter
    stIn,       \* statistics: the stored rows and the filter passed in
    stOut,      \* statistics: the percentiles and the top patterns returned
    nIn,        \* canonicalization: the SQL texts passed in
    nOut,       \* canonicalization: their patterns
    xIn,        \* export: the ReportData passed to ExportCSV and ExportPDF
    xOut,       \* export: the returned bytes and errors
    hIn,        \* report endpoints: the table, the request and the faults of the call
    hOut,       \* report endpoints: the response written and the repository calls made
    run,        \* a running Analyze: its position and the results of its queries so far
    users,      \* auth: the table DEMO.USER
    tokens,     \* auth: the table DEMO.REFRESH_TOKEN
    roles,      \* auth: the codes of the table DEMO.ROLE
    aproc,      \* auth: the calls in progress, one per client
    minted      \* auth: number of rows created so far (refresh tokens, users)

repoVars   == <<store, now, resp>>
deriveVars == <<dIn, dOut>>
parseVars  == <<pIn, pOut>>
calcVars   == <<fIn, fOut, stIn, stOut, nIn, nOut>>
exportVars  == <<xIn, xOut>>
handlerVars == <<hIn, hOut>>
runVars     == <<run>>
authVars    == <<users, tokens, roles, aproc, minted>>
extVars    == <<exportVars, handlerVars, runVars, authVars>>
streamVars == <<lines, failAt, pos, pc, ctxDone, psRet, total, skipped, entries, errs, cbLog,
               cancelAt>>
vars == <<store, now, resp, dIn, dOut, pIn, pOut,
          lines, failAt, pos, pc, ctxDone, psRet, total, skipped, entries, errs, cbLog,
          cancelAt, fIn, fOut, stIn, stOut, nIn, nOut, xIn, xOut,
          hIn, hOut, run, users, tokens, roles, aproc, minted>>

(***************************************************************************)
(* Bounds of the model                                                     *)
(***************************************************************************)
MaxStore == 2       \* rows the store may hold
MaxClock == 3       \* last tick of the server clock (the clock starts at tick 2)
MaxLines == 3       \* lines of an uploaded file

(***************************************************************************)
(* Strings                                                                 *)
(***************************************************************************)
Min(S) == CHOOSE x \in S : \A y \in S : x <= y
Max(S) == CHOOSE x \in S : \A y \in S : x >= y

UpperChars == <<"A","B","C","D","E","F","G","H","I","J","K","L","M",
                "N","O","P","Q","R","S","T","U","V","W","X","Y","Z">>
LowerChars == <<"a","b","c","d","e","f","g","h","i","j","k","l","m",
                "n","o","p","q","r","s","t","u","v","w","x","y","z">>
DigitChars == <<"0","1","2","3","4","5","6","7","8","9">>

IsSpace(c) == c \in {" ", "\t", "\n", "\r", "\f"}
IsDigit(c) == \E i \in 1..10 : DigitChars[i] = c
DigitVal(c) == (CHOOSE i \in 1..10 : DigitChars[i] = c) - 1

\* strings.TrimSpace
TrimSpace(s) ==
    LET keep == {i \in 1..Len(s) : ~IsSpace(s[i])}
    IN  IF keep = {} THEN <<>> ELSE SubSeq(s, Min(keep), Max(keep))

\* strings.ToLower (ASCII)
ToLowerChar(c) ==
    IF \E i \in 1..26 : UpperChars[i] = c
    THEN LowerChars[CHOOSE i \in 1..26 : UpperChars[i] = c]
    ELSE c
\* a mutant of ToLower: the text is left as written
ToLowerNone(s) == s

ToLower(s) == [i \in 1..Len(s) |-> ToLowerChar(s[i])]

\* whether literal lit occurs in s starting at index i
MatchAt(s, i, lit) ==
    /\ i >= 1
    /\ i + Len(lit) - 1 <= Len(s)
    /\ SubSeq(s, i, i + Len(lit) - 1) = lit

\* strings.Contains
StringsContains(s, sub) == \E i \in 1..(Len(s) + 1) : MatchAt(s, i, sub)

(***************************************************************************)
(* SQLLog (model.go) and the line grammar                                  *)
(***************************************************************************)
SQLLog(db, sql, t, c) ==
    [DBName |-> db, SQLQuery |-> sql, ExecTimeMs |-> t, ExecCount |-> c]
ZeroSQLLog == SQLLog(<<>>, <<>>, 0, 0)

kDB    == <<"D","B",":">>
kSql   == <<",","s","q","l",":">>
kTime  == <<",","e","x","e","c","_","t","i","m","e","_","m","s",":">>
kCount == <<",","e","x","e","c","_","c","o","u","n","t",":">>

\* the digits of MaxInt64, 9223372036854775807
MaxInt64Digits == <<"9","2","2","3","3","7","2","0","3","6","8","5","4","7","7","5","8","0","7">>

RECURSIVE DigitsLess(_, _)
\* a < b for digit strings of equal length
DigitsLess(a, b) ==
    IF a = <<>> THEN FALSE
    ELSE IF DigitVal(Head(a)) # DigitVal(Head(b)) THEN DigitVal(Head(a)) < DigitVal(Head(b))
    ELSE DigitsLess(Tail(a), Tail(b))

RECURSIVE DigitsToInt(_)
DigitsToInt(d) ==
    IF d = <<>> THEN 0
    ELSE 10 * DigitsToInt(SubSeq(d, 1, Len(d) - 1)) + DigitVal(d[Len(d)])

\* strconv.ParseInt(s, 10, 64) on a string of digits (all lineRE lets through):
\* a range error when the value exceeds MaxInt64
ParseInt(d) ==
    LET nz == {i \in 1..Len(d) : d[i] # "0"}
        sig == IF nz = {} THEN <<>> ELSE SubSeq(d, Min(nz), Len(d))
    IN  IF Len(sig) > 19 \/ (Len(sig) = 19 /\ DigitsLess(MaxInt64Digits, sig))
        THEN [ok |-> FALSE, val |-> 0]
        ELSE [ok |-> TRUE, val |-> DigitsToInt(sig)]

RECURSIVE FormatNat(_)
FormatNat(n) ==
    IF n < 10 THEN <<DigitChars[n + 1]>>
    ELSE FormatNat(n \div 10) \o <<DigitChars[(n % 10) + 1]>>
\* fmt %d
FormatInt(n) == IF n < 0 THEN <<"-">> \o FormatNat(0 - n) ELSE FormatNat(n)

\* DB:<name>,sql:<query>,exec_time_ms:<int>,exec_count:<int>
Line4(db, sql, t, c) == kDB \o db \o kSql \o sql \o kTime \o t \o kCount \o c
FormatLine(r) ==
    Line4(r.DBName, r.SQLQuery, FormatInt(r.ExecTimeMs), FormatInt(r.ExecCount))

NoMatch == <<>>

\* index of the last character of the maximal run of digits starting at i
\* (i - 1 when s[i] is no digit)
DigitRunEnd(s, i) ==
    Min({k \in i..(Len(s) + 1) : k = Len(s) + 1 \/ ~IsDigit(s[k])}) - 1

\* the tail of lineRE at index j: ,exec_time_ms:(\d+),exec_count:(\d+)\s*$
\* returns the two captures, or NoMatch
TailCaps(s, j) ==
    IF ~MatchAt(s, j, kTime) THEN NoMatch
    ELSE LET t1 == j + Len(kTime)
             t2 == DigitRunEnd(s, t1)
         IN  IF t2 < t1 \/ ~MatchAt(s, t2 + 1, kCount) THEN NoMatch
             ELSE LET c1 == t2 + 1 + Len(kCount)
                      c2 == DigitRunEnd(s, c1)
                  IN  IF c2 < c1 \/ \E k \in (c2 + 1)..Len(s) : ~IsSpace(s[k])
                      THEN NoMatch
                      ELSE <<SubSeq(s, t1, t2), SubSeq(s, c1, c2)>>

\* a mutant of SqlEnds: the query group written [^,]* instead of .*?
SqlEndsNoComma(s, s0) ==
    {j \in s0..(Len(s) + 1) :
        /\ \A k \in s0..(j - 1) : s[k] # "\n" /\ s[k] # ","
        /\ TailCaps(s, j) # NoMatch}

\* the query group (.*?): the shortest newline-free text after which the tail matches
SqlEnds(s, s0) ==
    {j \in s0..(Len(s) + 1) :
        /\ \A k \in s0..(j - 1) : s[k] # "\n"
        /\ TailCaps(s, j) # NoMatch}

\* lineRE.FindStringSubmatch: the four groups m[1..4], or NoMatch
\* ^DB:([^,]+),sql:(.*?),exec_time_ms:(\d+),exec_count:(\d+)\s*$
lineRE(s) ==
    LET commas == {i \in 1..Len(s) : s[i] = ","}
    IN  IF ~MatchAt(s, 1, kDB) \/ commas = {} THEN NoMatch
        ELSE LET c1 == Min(commas)
             IN  IF c1 = Len(kDB) + 1 \/ ~MatchAt(s, c1, kSql) THEN NoMatch
                 ELSE LET s0 == c1 + Len(kSql)
                          ends == SqlEnds(s, s0)
                      IN  IF ends = {} THEN NoMatch
                          ELSE LET j == Min(ends)
                                   tc == TailCaps(s, j)
                               IN  <<SubSeq(s, Len(kDB) + 1, c1 - 1),
                                     SubSeq(s, s0, j - 1), tc[1], tc[2]>>

Failure(msg) == [rec |-> ZeroSQLLog, err |-> msg]

\* a mutant of ParseLine: the check for an empty database name or query is missing
ParseLineNoEmptyCheck(s) ==
    LET line == TrimSpace(s)
        m == lineRE(line)
    IN  IF line = <<>> THEN Failure("empty line")
        ELSE IF m = NoMatch THEN Failure("invalid line format")
        ELSE IF ~ParseInt(m[3]).ok THEN Failure("invalid exec_time_ms")
        ELSE IF ~ParseInt(m[4]).ok THEN Failure("invalid exec_count")
        ELSE [rec |-> SQLLog(TrimSpace(m[1]), TrimSpace(m[2]),
                             ParseInt(m[3]).val, ParseInt(m[4]).val),
              err |-> "nil"]

ParseLine(s) ==
    LET line == TrimSpace(s)
        m == lineRE(line)
        dbName == TrimSpace(m[1])
        sqlQuery == TrimSpace(m[2])
        execTimeMs == ParseInt(m[3])
        execCount == ParseInt(m[4])
    IN  IF line = <<>> THEN Failure("empty line")
        ELSE IF m = NoMatch THEN Failure("invalid line format")
        ELSE IF ~execTimeMs.ok THEN Failure("invalid exec_time_ms")
        ELSE IF ~execCount.ok THEN Failure("invalid exec_count")
        ELSE IF dbName = <<>> \/ sqlQuery = <<>> THEN Failure("db or sql is empty")
        ELSE IF execTimeMs.val < 0 \/ execCount.val < 0
             THEN Failure("negative values not allowed")
        ELSE [rec |-> SQLLog(dbName, sqlQuery, execTimeMs.val, execCount.val),
              err |-> "nil"]

(***************************************************************************)
(* Idle values: what the variables of one component hold while another     *)
(* component is being checked                                              *)
(***************************************************************************)
NotParsed == [rec |-> ZeroSQLLog, err |-> "pending"]
NoParseIn == [line |-> <<>>, rec |-> ZeroSQLLog, formatted |-> FALSE, defects |-> {}]
NoResp    == [op |-> "none"]
NoDeriveIn  == [it |-> ZeroSQLLog, slowMs |-> 0, freqSlowMs |-> 0, freqCount |-> 0]
NoDeriveOut == [done |-> FALSE, reasons |-> <<>>, suggestions |-> <<>>]

NotCancelled == [pos |-> -1, fwd |-> -1]

RepoIdle   == store = <<>> /\ now = 2 /\ resp = NoResp
DeriveIdle == dIn = NoDeriveIn /\ dOut = NoDeriveOut
ParseIdle  == pIn = NoParseIn /\ pOut = NotParsed
NoCall == [called |-> FALSE]
FilterIdle == fIn = NoCall /\ fOut = NoCall
StatIdle   == stIn = NoCall /\ stOut = NoCall
NormIdle   == nIn = NoCall /\ nOut = NoCall
CalcIdle   == FilterIdle /\ StatIdle /\ NormIdle
ExportIdle == xIn = NoCall /\ xOut = NoCall
HandlerIdle == hIn = NoCall /\ hOut = NoCall
RunIdle    == run = NoCall
AuthIdle   == users = {} /\ tokens = {} /\ roles = {} /\ aproc = <<>> /\ minted = 0
ExtIdle    == ExportIdle /\ HandlerIdle /\ RunIdle /\ AuthIdle
StreamIdle ==
    /\ lines = <<>> /\ failAt = 0 /\ pos = 0 /\ pc = "idle" /\ ctxDone = FALSE
    /\ psRet = "running" /\ total = 0 /\ skipped = 0 /\ entries = <<>>
    /\ errs = <<>> /\ cbLog = <<>> /\ cancelAt = NotCancelled

(***************************************************************************)
(* ParseLine applied to bounded inputs                                     *)
(***************************************************************************)
ParseDBNames ==
    {<<"a">>, <<"d","b">>, <<"a",",","b">>, <<" ","a">>, <<" ">>, <<>>}
ParseSQLTexts ==
    {<<"x">>, <<"x",",","y">>, <<"x"," ">>, <<" ">>, <<>>, <<"x","\n","y">>,
     <<"x">> \o kCount \o <<"1">>,
     <<"x">> \o kTime \o <<"1">> \o kCount \o <<"2">>}
ParseTimes  == {0, 12, -5}
ParseCounts == {1, 100, -1}

\* the constraints of the line grammar that a record violates
RecordDefects(r) ==
    (IF r.ExecTimeMs < 0 \/ r.ExecCount < 0 THEN {"NegativeValue"} ELSE {})
    \cup (IF TrimSpace(r.DBName) = <<>> \/ TrimSpace(r.SQLQuery) = <<>>
          THEN {"MissingField"} ELSE {})

FormattedInputs ==
    {[line |-> FormatLine(r), rec |-> r, formatted |-> TRUE, defects |-> RecordDefects(r)] :
        r \in [DBName : ParseDBNames, SQLQuery : ParseSQLTexts,
               ExecTimeMs : ParseTimes, ExecCount : ParseCounts]}

RawInput(l, d) == [line |-> l, rec |-> ZeroSQLLog, formatted |-> FALSE, defects |-> d]

EmptyLineIn      == <<>>
BlankLineIn      == <<" ", "\t">>
ThreeFieldLine   == kDB \o <<"a">> \o kSql \o <<"x">> \o kTime \o <<"1","2">>
NegTimeLine      == Line4(<<"a">>, <<"x">>, <<"-","5">>, <<"1">>)
NegCountLine     == Line4(<<"a">>, <<"x">>, <<"5">>, <<"-","1">>)
BadCountLine     == Line4(<<"a">>, <<"x">>, <<"1","2">>, <<"a","b","c">>)
BadTimeLine      == Line4(<<"a">>, <<"x">>, <<"1","s">>, <<"3">>)
\* exec_count 9223372036854775808 = MaxInt64 + 1
HugeCountLine    ==
    Line4(<<"a">>, <<"x">>, <<"1">>,
          <<"9","2","2","3","3","7","2","0","3","6","8","5","4","7","7","5","8","0","8">>)
PaddedLine       == <<" ">> \o Line4(<<"a">>, <<"x">>, <<"7">>, <<"0","3">>) \o <<" ", "\r">>

RawInputs ==
    {RawInput(EmptyLineIn, {"EmptyLine"}), RawInput(BlankLineIn, {"EmptyLine"}),
     RawInput(ThreeFieldLine, {"MalformedFormat"}),
     RawInput(NegTimeLine, {"NegativeValue"}), RawInput(NegCountLine, {"NegativeValue"}),
     RawInput(BadCountLine, {"InvalidNumber"}), RawInput(BadTimeLine, {"InvalidNumber"}),
     RawInput(HugeCountLine, {"InvalidNumber"}),
     RawInput(PaddedLine, {})}

ParseInputs == FormattedInputs \cup RawInputs

InitParse ==
    /\ pIn \in ParseInputs
    /\ pOut = NotParsed
    /\ RepoIdle /\ DeriveIdle /\ StreamIdle /\ CalcIdle /\ ExtIdle

CallParseLine ==
    /\ pOut = NotParsed
    /\ pOut' = ParseLine(pIn.line)
    /\ UNCHANGED <<pIn, repoVars, deriveVars, streamVars, calcVars, extVars>>

NextParse == CallParseLine
SpecParse == InitParse /\ [][NextParse]_vars

(***************************************************************************)
(* Claims about ParseLine (checked under SpecParse)                        *)
(***************************************************************************)
Chars(s) == {s[i] : i \in 1..Len(s)}

\* a valid record in the sense of the round-trip property: non-empty database
\* name, non-empty SQL text without embedded newlines, non-negative integers
ValidRecord(r) ==
    /\ r.DBName # <<>>
    /\ r.SQLQuery # <<>> /\ "\n" \notin Chars(r.SQLQuery)
    /\ r.ExecTimeMs >= 0 /\ r.ExecCount >= 0

\* the fields pass through the line grammar unchanged: no comma in the database
\* name, no leading or trailing whitespace in the database name and the SQL text
CanonicalRecord(r) ==
    /\ "," \notin Chars(r.DBName)
    /\ TrimSpace(r.DBName) = r.DBName
    /\ TrimSpace(r.SQLQuery) = r.SQLQuery

\* C6 as stated: every valid record, formatted into the line grammar and passed to
\* ParseLine, comes back without error and equal in all four fields.
C6_RoundTripAnyValid ==
    (pOut # NotParsed /\ pIn.formatted /\ ValidRecord(pIn.rec))
        => (pOut.err = "nil" /\ pOut.rec = pIn.rec)

\* C6 amended: the round trip holds for every valid record whose database name
\* contains no comma and whose database name and SQL text carry no leading or
\* trailing whitespace; commas inside the SQL text do not break it.
C6_RoundTripCanonical ==
    (pOut # NotParsed /\ pIn.formatted /\ ValidRecord(pIn.rec) /\ CanonicalRecord(pIn.rec))
        => (pOut.err = "nil" /\ pOut.rec = pIn.rec)

\* C6 witness: a record whose SQL text contains a comma has been formatted,
\* parsed without error and returned equal.
C6_Witness ==
    /\ pIn.formatted /\ ValidRecord(pIn.rec) /\ CanonicalRecord(pIn.rec)
    /\ "," \in Chars(pIn.rec.SQLQuery)
    /\ pOut.err = "nil" /\ pOut.rec = pIn.rec

\* C7: ParseLine returns a fully populated record with a nil error or the zero
\* record with an error, never a partially populated record; the empty string, a
\* line with three fields, a negative exec_time_ms and a non-numeric exec_count
\* are each rejected.
C7_ParseLineAllOrNothing ==
    pOut # NotParsed =>
        /\ \/ /\ pOut.err = "nil"
              /\ pOut.rec.DBName # <<>> /\ TrimSpace(pOut.rec.DBName) = pOut.rec.DBName
              /\ pOut.rec.SQLQuery # <<>> /\ TrimSpace(pOut.rec.SQLQuery) = pOut.rec.SQLQuery
              /\ pOut.rec.ExecTimeMs >= 0 /\ pOut.rec.ExecCount >= 0
           \/ /\ pOut.err # "nil"
              /\ pOut.rec = ZeroSQLLog
        /\ pIn.line \in {EmptyLineIn, ThreeFieldLine, NegTimeLine, BadCountLine}
              => pOut.err # "nil"

\* C7 witness: the line with a negative exec_time_ms has been parsed and rejected
\* with the zero record.
C7_Witness ==
    pIn.line = NegTimeLine /\ pOut # NotParsed /\ pOut.err # "nil" /\ pOut.rec = ZeroSQLLog

\* the error kind that a ParseLine error message stands for
ErrKind(msg) ==
    CASE msg = "empty line" -> "EmptyLine"
      [] msg = "invalid line format" -> "MalformedFormat"
      [] msg = "invalid exec_time_ms" -> "InvalidNumber"
      [] msg = "invalid exec_count" -> "InvalidNumber"
      [] msg = "db or sql is empty" -> "MissingField"
      [] msg = "negative values not allowed" -> "NegativeValue"
      [] OTHER -> "none"

\* C8: every failure of ParseLine carries the kind of the constraint the line
\* violates (EmptyLine, MalformedFormat, InvalidNumber, NegativeValue,
\* MissingField), so lines violating different constraints get different kinds.
C8_ErrorKindOfConstraint ==
    (pOut # NotParsed /\ Cardinality(pIn.defects) = 1)
        => ErrKind(pOut.err) \in pIn.defects

(***************************************************************************)
(* deriveReasonsAndSuggestions (report repository)                         *)
(***************************************************************************)
kSelectStar == <<"s","e","l","e","c","t"," ","*">>

contains(sl, s) == \E i \in 1..Len(sl) : sl[i] = s

\* the closures addReason and addSuggestion: append unless already present
addReason(reasons, s) == IF ~contains(reasons, s) THEN Append(reasons, s) ELSE reasons
addSuggestion(suggestions, s) ==
    IF ~contains(suggestions, s) THEN Append(suggestions, s) ELSE suggestions

\* a mutant of deriveReasonsAndSuggestions: consider_caching is attached only to
\* records that carry the reason frequent_and_slow
deriveCachingOnlyWhenFrequent(it, slowMs, freqSlowMs, freqCount) ==
    LET lsql == ToLower(it.SQLQuery)
        star == StringsContains(lsql, kSelectStar)
        r1 == IF it.ExecTimeMs >= slowMs THEN addReason(<<>>, "slow_query") ELSE <<>>
        r2 == IF it.ExecTimeMs >= freqSlowMs /\ it.ExecCount >= freqCount
              THEN addReason(r1, "frequent_and_slow") ELSE r1
        r3 == IF star THEN addReason(r2, "select_star") ELSE r2
        s1 == IF star THEN addSuggestion(<<>>, "avoid_select_star") ELSE <<>>
        s2 == IF contains(r3, "slow_query") \/ contains(r3, "frequent_and_slow")
              THEN addSuggestion(s1, "add_index_on_where_columns") ELSE s1
        s3 == IF contains(r3, "frequent_and_slow")
              THEN addSuggestion(s2, "consider_caching") ELSE s2
    IN  [reasons |-> r3, suggestions |-> s3]

\* a mutant of deriveReasonsAndSuggestions: add_index_on_where_columns is attached
\* only to records that carry the reason slow_query
deriveIndexOnlyWhenSlow(it, slowMs, freqSlowMs, freqCount) ==
    LET lsql == ToLower(it.SQLQuery)
        star == StringsContains(lsql, kSelectStar)
        r1 == IF it.ExecTimeMs >= slowMs THEN addReason(<<>>, "slow_query") ELSE <<>>
        r2 == IF it.ExecTimeMs >= freqSlowMs /\ it.ExecCount >= freqCount
              THEN addReason(r1, "frequent_and_slow") ELSE r1
        r3 == IF star THEN addReason(r2, "select_star") ELSE r2
        s1 == IF star THEN addSuggestion(<<>>, "avoid_select_star") ELSE <<>>
        s2 == IF contains(r3, "slow_query")
              THEN addSuggestion(s1, "add_index_on_where_columns") ELSE s1
        s3 == IF it.ExecCount >= freqCount
              THEN addSuggestion(s2, "consider_caching") ELSE s2
    IN  [reasons |-> r3, suggestions |-> s3]

deriveReasonsAndSuggestions(it, slowMs, freqSlowMs, freqCount) ==
    LET lsql == ToLower(it.SQLQuery)
        star == StringsContains(lsql, kSelectStar)
        r1 == IF it.ExecTimeMs >= slowMs THEN addReason(<<>>, "slow_query") ELSE <<>>
        r2 == IF it.ExecTimeMs >= freqSlowMs /\ it.ExecCount >= freqCount
              THEN addReason(r1, "frequent_and_slow") ELSE r1
        r3 == IF star THEN addReason(r2, "select_star") ELSE r2
        s1 == IF star THEN addSuggestion(<<>>, "avoid_select_star") ELSE <<>>
        s2 == IF contains(r3, "slow_query") \/ contains(r3, "frequent_and_slow")
              THEN addSuggestion(s1, "add_index_on_where_columns") ELSE s1
        s3 == IF it.ExecCount >= freqCount
              THEN addSuggestion(s2, "consider_caching") ELSE s2
    IN  [reasons |-> r3, suggestions |-> s3]

(***************************************************************************)
(* deriveReasonsAndSuggestions applied to bounded inputs                   *)
(***************************************************************************)
\* SQL texts whose lower-cased form contains "select *" ...
StarTexts ==
    {<<"s","e","l","e","c","t"," ","*">>,
     <<"S","E","L","E","C","T"," ","*">>,
     <<"x"," ","S","e","l","e","c","t"," ","*"," ","f">>}
\* ... and SQL texts whose lower-cased form does not
PlainTexts ==
    {<<"s","e","l","e","c","t"," "," ","*">>,
     <<"s","e","l","e","c","t"," ","i","d">>,
     <<"S","E","L","E","C","T","*">>}
DeriveTimes   == {0, 499, 500, 999, 1000}
DeriveCounts  == {0, 99, 100}
DeriveSlow     == {500, 1000}
DeriveFreqSlow == {500, 1000}
DeriveFreqCnt  == {1, 100}

DeriveInputs ==
    {[it |-> SQLLog(<<"a">>, sql, t, c), slowMs |-> sm, freqSlowMs |-> fm, freqCount |-> fc] :
        sql \in StarTexts \cup PlainTexts, t \in DeriveTimes, c \in DeriveCounts,
        sm \in DeriveSlow, fm \in DeriveFreqSlow, fc \in DeriveFreqCnt}

InitDerive ==
    /\ dIn \in DeriveInputs
    /\ dOut = NoDeriveOut
    /\ RepoIdle /\ ParseIdle /\ StreamIdle /\ CalcIdle /\ ExtIdle

CallDerive ==
    /\ ~dOut.done
    /\ LET d == deriveReasonsAndSuggestions(dIn.it, dIn.slowMs, dIn.freqSlowMs, dIn.freqCount)
       IN  dOut' = [done |-> TRUE, reasons |-> d.reasons, suggestions |-> d.suggestions]
    /\ UNCHANGED <<dIn, repoVars, parseVars, streamVars, calcVars, extVars>>

NextDerive == CallDerive
SpecDerive == InitDerive /\ [][NextDerive]_vars

(***************************************************************************)
(* Claims about deriveReasonsAndSuggestions (checked under SpecDerive)     *)
(***************************************************************************)
ReasonOrder     == <<"slow_query", "frequent_and_slow", "select_star">>
SuggestionOrder == <<"avoid_select_star", "add_index_on_where_columns", "consider_caching">>

IndexIn(order, x) == CHOOSE i \in 1..Len(order) : order[i] = x

\* q lists elements of order, each at most once, in the order of order
OrderedSelection(q, order) ==
    /\ \A i \in 1..Len(q) : contains(order, q[i])
    /\ \A i, j \in 1..Len(q) : i < j => IndexIn(order, q[i]) < IndexIn(order, q[j])

\* C4: the reasons come in the fixed order slow_query, frequent_and_slow,
\* select_star, each present exactly when its condition holds, none twice.
C4_ReasonsExactAndOrdered ==
    dOut.done =>
        /\ OrderedSelection(dOut.reasons, ReasonOrder)
        /\ contains(dOut.reasons, "slow_query") <=> (dIn.it.ExecTimeMs >= dIn.slowMs)
        /\ contains(dOut.reasons, "frequent_and_slow")
              <=> (dIn.it.ExecTimeMs >= dIn.freqSlowMs /\ dIn.it.ExecCount >= dIn.freqCount)
        /\ contains(dOut.reasons, "select_star") <=> (dIn.it.SQLQuery \in StarTexts)

\* C4 witness: a record in upper case that meets all three conditions got the
\* three reasons.
C4_Witness ==
    /\ dOut.done /\ dOut.reasons = ReasonOrder
    /\ dIn.it.SQLQuery = <<"S","E","L","E","C","T"," ","*">>

\* C5: the suggestions come in the fixed order avoid_select_star,
\* add_index_on_where_columns, consider_caching; avoid_select_star iff reason
\* select_star, add_index_on_where_columns iff reason slow_query or
\* frequent_and_slow, consider_caching iff exec_count >= freq_count whatever the
\* reasons; none twice.
C5_SuggestionsExactAndOrdered ==
    dOut.done =>
        /\ OrderedSelection(dOut.suggestions, SuggestionOrder)
        /\ contains(dOut.suggestions, "avoid_select_star")
              <=> contains(dOut.reasons, "select_star")
        /\ contains(dOut.suggestions, "add_index_on_where_columns")
              <=> (contains(dOut.reasons, "slow_query")
                   \/ contains(dOut.reasons, "frequent_and_slow"))
        /\ contains(dOut.suggestions, "consider_caching")
              <=> (dIn.it.ExecCount >= dIn.freqCount)

\* C5 witness: a record without any reason whose exec_count reaches freq_count
\* got consider_caching alone.
C5_Witness ==
    dOut.done /\ dOut.reasons = <<>> /\ dOut.suggestions = <<"consider_caching">>

(***************************************************************************)
(* The record store and the report repository                              *)
(*                                                                         *)
(* Times are ticks of one default window (7 days) each; tick 0 is the zero *)
(* time.Time. A *gorm.DB query is the table together with the set of row   *)
(* indexes that satisfy the Where clauses chained so far: gorm joins the   *)
(* clauses with AND and puts each clause that contains AND or OR in        *)
(* parentheses.                                                            *)
(***************************************************************************)
defaultSlowMs       == 1000
defaultFreqSlowMs   == 500
defaultFreqCount    == 100
defaultMaxAnomalies == 500
maxAnomaliesCap     == 5000
DefaultWindow       == 1      \* 7 * 24 * time.Hour

IsZero(t) == t = 0

Row(e, id, t) ==
    [ID |-> id, DBName |-> e.DBName, SQLQuery |-> e.SQLQuery,
     ExecTimeMs |-> e.ExecTimeMs, ExecCount |-> e.ExecCount, CreatedAt |-> t]

\* r.db.WithContext(ctx).Model(&SQLLog{})
Model(table) == [table |-> table, sel |-> 1..Len(table)]

\* db.Where(cond): cond is given as the set of rows of the table that satisfy it
Where(db, rowsOfCond) == [db EXCEPT !.sel = db.sel \cap rowsOfCond]

\* a mutant of Where: the clause is joined without parentheses, so that in
\* "w AND a OR b" the last disjunct b escapes the clauses w chained before it
WhereOr(db, rowsA, rowsB) == [db EXCEPT !.sel = (db.sel \cap rowsA) \cup rowsB]

Count(db) == Cardinality(db.sel)

DefaultFilter(t) ==
    [From |-> t - DefaultWindow, To |-> t, DB |-> <<>>, Limit |-> defaultMaxAnomalies,
     SlowMs |-> defaultSlowMs, FreqSlowMs |-> defaultFreqSlowMs,
     FreqCount |-> defaultFreqCount, MaxCap |-> maxAnomaliesCap]

clampLimit(n, cap) ==
    LET c == IF cap <= 0 THEN maxAnomaliesCap ELSE cap
    IN  IF n <= 0 THEN defaultMaxAnomalies
        ELSE IF n > c THEN c
        ELSE n

\* the defaults Analyze applies to its filter before it queries
ApplyDefaults(f, t) ==
    LET df == DefaultFilter(t)
        dflt == IsZero(f.From) \/ IsZero(f.To) \/ f.From > f.To
        from == IF dflt /\ IsZero(f.From) THEN df.From ELSE f.From
        to == IF dflt /\ (IsZero(f.To) \/ from > f.To) THEN df.To ELSE f.To
    IN  [f EXCEPT !.From = from, !.To = to,
                  !.Limit = clampLimit(f.Limit, f.MaxCap),
                  !.SlowMs = IF f.SlowMs <= 0 THEN defaultSlowMs ELSE f.SlowMs,
                  !.FreqSlowMs = IF f.FreqSlowMs <= 0 THEN defaultFreqSlowMs ELSE f.FreqSlowMs,
                  !.FreqCount = IF f.FreqCount <= 0 THEN defaultFreqCount ELSE f.FreqCount]

applyFilters(db, f) ==
    LET t == db.table
        window == Where(db, {i \in 1..Len(t) : t[i].CreatedAt >= f.From /\ t[i].CreatedAt <= f.To})
    IN  IF TrimSpace(f.DB) # <<>>
        THEN Where(window, {i \in 1..Len(t) : t[i].DBName = TrimSpace(f.DB)})
        ELSE window

\* a mutant of applyAnomalyFilters: the OR clause is not parenthesised
applyAnomalyFiltersUnparenthesised(db, f) ==
    LET t == db.table
    IN  WhereOr(db, {i \in 1..Len(t) : t[i].ExecTimeMs >= f.SlowMs},
                    {i \in 1..Len(t) : t[i].ExecTimeMs >= f.FreqSlowMs
                                       /\ t[i].ExecCount >= f.FreqCount})

applyAnomalyFilters(db, f) ==
    LET t == db.table
    IN  Where(db, {i \in 1..Len(t) :
                      \/ t[i].ExecTimeMs >= f.SlowMs
                      \/ (t[i].ExecTimeMs >= f.FreqSlowMs /\ t[i].ExecCount >= f.FreqCount)})

\* a mutant of SeverityOrder: ORDER BY exec_time_ms DESC alone
SeverityOrderTimeOnly(a, b) == a.ExecTimeMs >= b.ExecTimeMs

\* ORDER BY exec_time_ms DESC, exec_count DESC: a before-or-equal b
SeverityOrder(a, b) ==
    \/ a.ExecTimeMs > b.ExecTimeMs
    \/ (a.ExecTimeMs = b.ExecTimeMs /\ a.ExecCount >= b.ExecCount)

\* db.Order("exec_time_ms DESC, exec_count DESC").Limit(limit).Find(&rows): the
\* possible results; the store is free in the order of rows with equal keys
FindOrdered(db, limit) ==
    LET n == Cardinality(db.sel)
        k == IF limit < n THEN limit ELSE n
        sorted == {p \in [1..n -> db.sel] :
                      /\ \A i, j \in 1..n : i # j => p[i] # p[j]
                      /\ \A i \in 1..(n - 1) :
                            SeverityOrder(db.table[p[i]], db.table[p[i + 1]])}
    IN  {[i \in 1..k |-> db.table[p[i]]] : p \in sorted}

\* a mutant of anomalyCount: the count is taken from the limited query
anomalyCountLimited(table, f) ==
    LET n == Count(applyAnomalyFilters(applyFilters(Model(table), f), f))
    IN  IF f.Limit < n THEN f.Limit ELSE n

\* the anomaly total (full, without limit)
anomalyCount(table, f) == Count(applyAnomalyFilters(applyFilters(Model(table), f), f))

\* the per-database breakdown: db_name, COUNT(*) ... GROUP BY db_name
byDB(table, f) ==
    LET q == applyFilters(Model(table), f)
        names == {table[i].DBName : i \in q.sel}
    IN  [d \in names |-> Cardinality({i \in q.sel : table[i].DBName = d})]

AnomalyDetail(it, f) ==
    LET d == deriveReasonsAndSuggestions(it, f.SlowMs, f.FreqSlowMs, f.FreqCount)
    IN  [DBName |-> it.DBName, SQLQuery |-> it.SQLQuery, ExecTimeMs |-> it.ExecTimeMs,
         ExecCount |-> it.ExecCount, Reasons |-> d.reasons, Suggestions |-> d.suggestions]

\* the ReportData Analyze builds from the rows anomsSource of its list query
ReportData(table, f, anomsSource) ==
    LET anoms == [i \in 1..Len(anomsSource) |-> AnomalyDetail(anomsSource[i], f)]
    IN  [Summary |->
            [TotalQueries |-> Count(applyFilters(Model(table), f)),
             AnomalyCount |-> anomalyCount(table, f),
             SuggestionCount |-> Cardinality({i \in 1..Len(anoms) : Len(anoms[i].Suggestions) > 0}),
             ByDB |-> byDB(table, f),
             From |-> f.From, To |-> f.To],
         Anomalies |-> anoms]

(***************************************************************************)
(* Inputs of the repository operations                                     *)
(***************************************************************************)
SqlStar  == <<"S","E","L","E","C","T"," ","*">>
SqlPlain == <<"s","e","l","e","c","t"," ","i","d">>

SampleEntries ==
    {SQLLog(<<"a">>, SqlStar, 1000, 5), SQLLog(<<"a">>, SqlPlain, 500, 100),
     SQLLog(<<"a">>, SqlPlain, 500, 5),
     SQLLog(<<"b">>, SqlPlain, 1000, 5), SQLLog(<<"b">>, SqlStar, 500, 100)}
\* entries the parser never produces: an empty database name, an empty SQL text
BadEntries == {SQLLog(<<>>, SqlPlain, 1000, 5), SQLLog(<<"a">>, <<>>, 500, 100)}

Batches ==
    {<<>>} \cup {<<e>> : e \in SampleEntries \cup BadEntries}
    \cup {<<e1, e2>> : e1 \in SampleEntries, e2 \in BadEntries}
    \cup {<<e1, e1>> : e1 \in SampleEntries}

FilterTimes  == {0, 2, 3}
FilterDBs    == {<<>>, <<" ", "a">>}
\* (Limit, MaxCap)
FilterLimits == {<<0, 0>>, <<1, 0>>, <<2, 0>>, <<2, 1>>}
\* (SlowMs, FreqSlowMs, FreqCount)
FilterThresholds == {<<0, 0, 0>>, <<500, 500, 5>>}

Filters ==
    {[From |-> fr, To |-> to, DB |-> d, Limit |-> l[1], MaxCap |-> l[2],
      SlowMs |-> th[1], FreqSlowMs |-> th[2], FreqCount |-> th[3]] :
        fr \in FilterTimes, to \in FilterTimes, d \in FilterDBs, l \in FilterLimits,
        th \in FilterThresholds}

(***************************************************************************)
(* Operations of the repository                                            *)
(***************************************************************************)
Init ==
    /\ store = <<>>
    /\ now = 2
    /\ resp = NoResp
    /\ DeriveIdle /\ ParseIdle /\ StreamIdle /\ CalcIdle /\ ExtIdle

\* time passes
Tick ==
    /\ resp = NoResp
    /\ now < MaxClock
    /\ now' = now + 1
    /\ UNCHANGED <<store, resp, deriveVars, parseVars, extVars, calcVars, streamVars>>

\* index of the first entry the validation loop of InsertBatch stops at (0: none)
firstInvalid(es) ==
    LET bad == {i \in 1..Len(es) : es[i].DBName = <<>> \/ es[i].SQLQuery = <<>>}
    IN  IF bad = {} THEN 0 ELSE Min(bad)

\* a mutant of InsertBatchResult: the entries before the offending one are inserted
InsertBatchValidPrefix(table, es, t, dbOK) ==
    LET k == firstInvalid(es)
    IN  IF es = <<>> THEN [err |-> "nil", table |-> table]
        ELSE IF k # 0
        THEN [err |-> "missing required fields",
              table |-> table \o [i \in 1..(k - 1) |-> Row(es[i], Len(table) + i, t)]]
        ELSE [err |-> "nil",
              table |-> table \o [i \in 1..Len(es) |-> Row(es[i], Len(table) + i, t)]]

\* a mutant of InsertBatchResult: the batch replaces the rows of the table
InsertBatchReplacing(table, es, t, dbOK) ==
    IF es = <<>> THEN [err |-> "nil", table |-> table]
    ELSE IF firstInvalid(es) # 0
    THEN [err |-> "missing required fields", table |-> table]
    ELSE IF ~dbOK
    THEN [err |-> "db", table |-> table]
    ELSE [err |-> "nil", table |-> [i \in 1..Len(es) |-> Row(es[i], i, t)]]

\* what InsertBatch returns and leaves in the table; dbOK is whether the store
\* executes the INSERT of CreateInBatches (one statement for up to 500 rows)
InsertBatchResult(table, es, t, dbOK) ==
    IF es = <<>> THEN [err |-> "nil", table |-> table]
    ELSE IF firstInvalid(es) # 0
    THEN [err |-> "missing required fields", table |-> table]
    ELSE IF ~dbOK
    THEN [err |-> "db", table |-> table]
    ELSE [err |-> "nil",
          table |-> table \o [i \in 1..Len(es) |-> Row(es[i], Len(table) + i, t)]]

InsertBatch(es) ==
    /\ resp = NoResp
    /\ Len(store) + Len(es) <= MaxStore
    /\ \E dbOK \in BOOLEAN :
          LET r == InsertBatchResult(store, es, now, dbOK)
          IN  /\ store' = r.table
              /\ resp' = [op |-> "InsertBatch", err |-> r.err, entries |-> es,
                          before |-> store]
    /\ UNCHANGED <<now, deriveVars, parseVars, extVars, calcVars, streamVars>>

Analyze(f) ==
    LET eff == ApplyDefaults(f, now)
        listQuery == applyAnomalyFilters(applyFilters(Model(store), eff), eff)
    IN  /\ resp = NoResp
        /\ \E anomsSource \in FindOrdered(listQuery, eff.Limit) :
              resp' = [op |-> "Analyze", err |-> "nil", filter |-> f, eff |-> eff,
                       anomsSource |-> anomsSource,
                       data |-> ReportData(store, eff, anomsSource)]
        /\ UNCHANGED <<store, now, deriveVars, parseVars, extVars, calcVars, streamVars>>

\* the caller takes the result of the call
Return ==
    /\ resp # NoResp
    /\ resp' = NoResp
    /\ UNCHANGED <<store, now, deriveVars, parseVars, extVars, calcVars, streamVars>>

Next ==
    \/ Tick
    \/ Return
    \/ \E es \in Batches : InsertBatch(es)
    \/ \E f \in Filters : Analyze(f)

Spec == Init /\ [][Next]_vars

(***************************************************************************)
(* Claims about Analyze (checked under Spec)                               *)
(***************************************************************************)
Analyzed == resp.op = "Analyze" /\ resp.err = "nil"

\* the record lies in the effective window and matches the database filter
InScope(r) ==
    /\ resp.eff.From <= r.CreatedAt /\ r.CreatedAt <= resp.eff.To
    /\ TrimSpace(resp.filter.DB) # <<>> => r.DBName = TrimSpace(resp.filter.DB)

SlowRule(r) == r.ExecTimeMs >= resp.eff.SlowMs
FreqRule(r) == r.ExecTimeMs >= resp.eff.FreqSlowMs /\ r.ExecCount >= resp.eff.FreqCount

\* the IDs of the stored records that are in scope and anomalous by the rule
AnomalousIDs ==
    {store[i].ID : i \in {k \in 1..Len(store) :
        InScope(store[k]) /\ (SlowRule(store[k]) \/ FreqRule(store[k]))}}

ListedIDs == {resp.anomsSource[i].ID : i \in 1..Len(resp.anomsSource)}

\* C1: Analyze counts and lists a record as anomalous iff it lies in the window,
\* matches the database filter and satisfies the rule; a record out of scope is
\* never counted or listed, whichever disjunct it satisfies.
C1_AnomalousIffInScopeAndRule ==
    Analyzed =>
        /\ resp.data.Summary.AnomalyCount = Cardinality(AnomalousIDs)
        /\ Len(resp.data.Anomalies) = Len(resp.anomsSource)
        /\ \A i \in 1..Len(resp.anomsSource) :
              /\ resp.anomsSource[i].ID \in AnomalousIDs
              /\ resp.anomsSource[i] = store[resp.anomsSource[i].ID]
              /\ resp.data.Anomalies[i].DBName = resp.anomsSource[i].DBName
              /\ resp.data.Anomalies[i].ExecTimeMs = resp.anomsSource[i].ExecTimeMs
              /\ resp.data.Anomalies[i].ExecCount = resp.anomsSource[i].ExecCount
        /\ Cardinality(ListedIDs) = Len(resp.anomsSource)
        /\ Len(resp.anomsSource) < resp.eff.Limit => ListedIDs = AnomalousIDs

\* C1 witness: a report that counts an anomaly while the store holds a record out
\* of scope that satisfies only the second disjunct of the rule.
C1_Witness ==
    /\ Analyzed
    /\ resp.data.Summary.AnomalyCount >= 1
    /\ \E k \in 1..Len(store) :
          ~InScope(store[k]) /\ ~SlowRule(store[k]) /\ FreqRule(store[k])

\* C2: anomaly_count is the number of all matching anomalous records whatever the
\* limit, and the list has exactly min(anomaly_count, effective limit) entries.
C2_CountFullListCapped ==
    Analyzed =>
        /\ resp.data.Summary.AnomalyCount = Cardinality(AnomalousIDs)
        /\ Len(resp.data.Anomalies) =
              Min({resp.data.Summary.AnomalyCount, clampLimit(resp.filter.Limit, resp.filter.MaxCap)})

\* C2 witness: more anomalies than the limit; the list is as long as the limit.
C2_Witness ==
    /\ Analyzed
    /\ resp.data.Summary.AnomalyCount > resp.eff.Limit
    /\ Len(resp.data.Anomalies) = resp.eff.Limit

\* a has a strictly greater (exec_time_ms, exec_count) key than b
KeyGreater(a, b) ==
    \/ a.ExecTimeMs > b.ExecTimeMs
    \/ (a.ExecTimeMs = b.ExecTimeMs /\ a.ExecCount > b.ExecCount)

\* C3: the anomaly list is sorted by exec_time_ms descending, ties by exec_count
\* descending, and is a prefix of the sorted anomalous set: no anomalous record
\* left out has a strictly greater key than a listed one.
C3_ListSortedPrefix ==
    Analyzed =>
        /\ \A i, j \in 1..Len(resp.data.Anomalies) :
              i < j => ~KeyGreater(resp.data.Anomalies[j], resp.data.Anomalies[i])
        /\ \A id \in AnomalousIDs \ ListedIDs : \A i \in 1..Len(resp.data.Anomalies) :
              ~KeyGreater(store[id], resp.data.Anomalies[i])

\* C3 witness: a truncated list; the record left out ties with the listed one on
\* exec_time_ms and has the smaller exec_count.
C3_Witness ==
    /\ Analyzed
    /\ Len(resp.data.Anomalies) = 1
    /\ \E id \in AnomalousIDs \ ListedIDs :
          /\ store[id].ExecTimeMs = resp.data.Anomalies[1].ExecTimeMs
          /\ store[id].ExecCount < resp.data.Anomalies[1].ExecCount

(***************************************************************************)
(* Claims about InsertBatch (checked under Spec)                           *)
(***************************************************************************)
HasInvalidEntry(es) ==
    \E i \in 1..Len(es) : es[i].DBName = <<>> \/ es[i].SQLQuery = <<>>

\* C12: a batch holding, at any index, a record with an empty DBName or an empty
\* SQLQuery makes InsertBatch return an error and leaves the store as it was
\* before the call: none of the batch's records is inserted, the valid records
\* that precede the offending one included.
C12_InsertBatchAllOrNothing ==
    (resp.op = "InsertBatch" /\ HasInvalidEntry(resp.entries)) =>
        /\ resp.err = "missing required fields"
        /\ store = resp.before

\* C12 witness: a batch whose first record is valid and whose second is not was
\* rejected and the store holds what it held before the call
C12_Witness ==
    /\ resp.op = "InsertBatch"
    /\ Len(resp.entries) = 2
    /\ ~HasInvalidEntry(<<resp.entries[1]>>)
    /\ HasInvalidEntry(<<resp.entries[2]>>)
    /\ resp.err # "nil"
    /\ store = resp.before

(***************************************************************************)
(* ParseStream, called by the upload handler with its two callbacks        *)
(***************************************************************************)
maxErrorsKept == 20

\* the accept callback of Upload: func(rec) error { total++; entries = append(...) }
onEntry(sink, rec) ==
    [sink |-> [sink EXCEPT !.total = @ + 1, !.entries = Append(@, rec)], err |-> "nil"]

\* a mutant of onError: every error is kept
onErrorUnbounded(sink, perr) ==
    [sink EXCEPT !.total = @ + 1, !.skipped = @ + 1, !.errs = Append(@, perr)]

\* the reject callback of Upload: func(perr) { total++; skipped++; errs (bounded) }
onError(sink, perr) ==
    [sink EXCEPT !.total = @ + 1, !.skipped = @ + 1,
                 !.errs = IF Len(@) < maxErrorsKept THEN Append(@, perr) ELSE @]

Sink == [total |-> total, skipped |-> skipped, entries |-> entries, errs |-> errs]

SetSink(sink) ==
    /\ total' = sink.total
    /\ skipped' = sink.skipped
    /\ entries' = sink.entries
    /\ errs' = sink.errs

\* sc.Scan() returns false at the end of the input: ParseStream returns sc.Err(), nil
ScanEOF ==
    /\ pc = "scan" /\ pos = Len(lines) /\ failAt # pos + 1
    /\ psRet' = "nil" /\ pc' = "returned"
    /\ UNCHANGED <<lines, failAt, pos, ctxDone, total, skipped, entries, errs, cbLog, cancelAt>>
    /\ UNCHANGED <<repoVars, deriveVars, parseVars, extVars, calcVars>>

\* sc.Scan() returns false on a line longer than maxLine or a failing reader:
\* ParseStream returns the wrapped scan error
ScanFail ==
    /\ pc = "scan" /\ failAt = pos + 1
    /\ psRet' = "scan" /\ pc' = "returned"
    /\ UNCHANGED <<lines, failAt, pos, ctxDone, total, skipped, entries, errs, cbLog, cancelAt>>
    /\ UNCHANGED <<repoVars, deriveVars, parseVars, extVars, calcVars>>

\* sc.Scan() returns a line and the select finds the context alive
ScanLine ==
    /\ pc = "scan" /\ pos < Len(lines) /\ failAt # pos + 1
    /\ ~ctxDone
    /\ pos' = pos + 1 /\ pc' = "line"
    /\ UNCHANGED <<lines, failAt, ctxDone, psRet, total, skipped, entries, errs, cbLog, cancelAt>>
    /\ UNCHANGED <<repoVars, deriveVars, parseVars, extVars, calcVars>>

\* a mutant of ScanLineCancelled: the loop does not look at ctx.Done()
ScanLineIgnoreCancel ==
    /\ pc = "scan" /\ pos < Len(lines) /\ failAt # pos + 1
    /\ ctxDone
    /\ pos' = pos + 1 /\ pc' = "line"
    /\ UNCHANGED <<lines, failAt, ctxDone, psRet, total, skipped, entries, errs, cbLog, cancelAt>>
    /\ UNCHANGED <<repoVars, deriveVars, parseVars, extVars, calcVars>>

\* sc.Scan() returns a line and the select finds the context done: return ctx.Err()
ScanLineCancelled ==
    /\ pc = "scan" /\ pos < Len(lines) /\ failAt # pos + 1
    /\ ctxDone
    /\ pos' = pos + 1 /\ psRet' = "context canceled" /\ pc' = "returned"
    /\ UNCHANGED <<lines, failAt, ctxDone, total, skipped, entries, errs, cbLog, cancelAt>>
    /\ UNCHANGED <<repoVars, deriveVars, parseVars, extVars, calcVars>>

\* a mutant of ForwardLine: a line that does not parse ends the scan with its error
ForwardLineStopOnBad ==
    /\ pc = "line"
    /\ LET p == ParseLine(lines[pos])
       IN  IF p.err # "nil"
           THEN /\ psRet' = "parse" /\ pc' = "returned"
                /\ UNCHANGED <<total, skipped, entries, errs, cbLog>>
           ELSE /\ SetSink(onEntry(Sink, p.rec).sink)
                /\ cbLog' = Append(cbLog, [line |-> pos, cb |-> "accept"])
                /\ pc' = "scan" /\ UNCHANGED psRet
    /\ UNCHANGED <<lines, failAt, pos, ctxDone, cancelAt>>
    /\ UNCHANGED <<repoVars, deriveVars, parseVars, extVars, calcVars>>

\* the body of the scan loop: ParseLine, then the reject or the accept callback
ForwardLine ==
    /\ pc = "line"
    /\ LET p == ParseLine(lines[pos])
           l == lines[pos]
       IN  IF p.err # "nil"
           THEN /\ SetSink(onError(Sink, [err |-> p.err, line |-> l]))
                /\ cbLog' = Append(cbLog, [line |-> pos, cb |-> "reject"])
           ELSE LET r == onEntry(Sink, p.rec)
                IN  IF r.err # "nil"
                    THEN /\ SetSink(onError(r.sink, [err |-> "store", line |-> l]))
                         /\ cbLog' = cbLog \o <<[line |-> pos, cb |-> "accept"],
                                                [line |-> pos, cb |-> "reject"]>>
                    ELSE /\ SetSink(r.sink)
                         /\ cbLog' = Append(cbLog, [line |-> pos, cb |-> "accept"])
    /\ pc' = "scan"
    /\ UNCHANGED <<lines, failAt, pos, ctxDone, psRet, cancelAt>>
    /\ UNCHANGED <<repoVars, deriveVars, parseVars, extVars, calcVars>>

\* the request context is cancelled while ParseStream runs
Cancel ==
    /\ pc \in {"scan", "line"} /\ ~ctxDone
    /\ ctxDone' = TRUE
    /\ cancelAt' = [pos |-> pos, fwd |-> Len(cbLog)]
    /\ UNCHANGED <<lines, failAt, pos, pc, psRet, total, skipped, entries, errs, cbLog>>
    /\ UNCHANGED <<repoVars, deriveVars, parseVars, extVars, calcVars>>

(***************************************************************************)
(* Uploaded files                                                          *)
(***************************************************************************)
RecA == SQLLog(<<"a">>, <<"x">>, 7, 1)
RecB == SQLLog(<<"b">>, <<"x", ",", "y">>, 1000, 5)
ValidLineA == <<"D","B",":","a",",","s","q","l",":","x">> \o kTime \o <<"7">> \o kCount \o <<"1">>
ValidLineB ==
    <<"D","B",":","b",",","s","q","l",":","x",",","y">> \o kTime \o <<"1","0","0","0">>
        \o kCount \o <<"5">>
ValidLines == {ValidLineA, ValidLineB}
BadLines   == {ThreeFieldLine, EmptyLineIn}

RECURSIVE SeqsUpTo(_, _)
SeqsUpTo(S, n) ==
    IF n = 0 THEN {<<>>}
    ELSE LET shorter == SeqsUpTo(S, n - 1)
         IN  shorter \cup {Append(q, x) : q \in shorter, x \in S}

InitStream ==
    /\ lines \in SeqsUpTo(ValidLines \cup BadLines, MaxLines)
    /\ failAt \in 0..(Len(lines) + 1)
    /\ pos = 0 /\ pc = "scan" /\ ctxDone = FALSE /\ psRet = "running"
    /\ total = 0 /\ skipped = 0 /\ entries = <<>> /\ errs = <<>> /\ cbLog = <<>>
    /\ cancelAt = NotCancelled
    /\ RepoIdle /\ DeriveIdle /\ ParseIdle /\ CalcIdle /\ ExtIdle

ParseStream ==
    \/ ScanEOF
    \/ ScanFail
    \/ ScanLine
    \/ ScanLineCancelled
    \/ ForwardLine

NextStream ==
    \/ ParseStream
    \/ Cancel

SpecStream == InitStream /\ [][NextStream]_vars

(***************************************************************************)
(* Claims about ParseStream (checked under SpecStream)                     *)
(***************************************************************************)
ExpectedRec(l) == IF l = ValidLineA THEN RecA ELSE RecB

RECURSIVE ExpectedEntries(_)
\* the records of the valid lines of ls, in the order of ls
ExpectedEntries(ls) ==
    IF ls = <<>> THEN <<>>
    ELSE (IF Head(ls) \in ValidLines THEN <<ExpectedRec(Head(ls))>> ELSE <<>>)
         \o ExpectedEntries(Tail(ls))

RECURSIVE AcceptedLines(_)
\* the lines that the callback log shows as passed to the accept callback
AcceptedLines(log) ==
    IF log = <<>> THEN <<>>
    ELSE (IF Head(log).cb = "accept" THEN <<lines[Head(log).line]>> ELSE <<>>)
         \o AcceptedLines(Tail(log))

\* C9: a stream read to its end gets exactly one callback per line, accept for a
\* valid line and reject for an invalid one, so accepted + rejected = total lines;
\* a bad line never ends the scan, and the valid records reach the accept callback
\* in the order of their lines.
C9_OneCallbackPerLine ==
    /\ psRet \in {"running", "nil", "scan", "context canceled"}
    /\ psRet = "scan" => failAt = pos + 1
    /\ psRet = "context canceled" => ctxDone
    /\ psRet = "nil" =>
          /\ pos = Len(lines)
          /\ Len(cbLog) = Len(lines)
          /\ \A i \in 1..Len(cbLog) :
                /\ cbLog[i].line = i
                /\ cbLog[i].cb = IF lines[i] \in ValidLines THEN "accept" ELSE "reject"
          /\ total = Len(lines)
          /\ Len(entries) + skipped = total
          /\ entries = ExpectedEntries(lines)

\* C9 witness: a stream read to its end in which a bad line precedes a valid one;
\* the bad line was rejected and the valid one accepted.
C9_Witness ==
    /\ psRet = "nil"
    /\ \E i, j \in 1..Len(lines) : i < j /\ lines[i] \in BadLines /\ lines[j] \in ValidLines
    /\ skipped >= 1 /\ Len(entries) >= 1

\* C10 as stated: once the cancellation signal has fired, no further line reaches
\* a callback and ParseStream returns the cancellation error, not nil and not a
\* scan error; what was forwarded before the signal stays.
C10_CancelStopsAndReturnsCancelled ==
    ctxDone =>
        /\ Len(cbLog) = cancelAt.fwd
        /\ psRet # "running" => psRet = "context canceled"

\* C10 amended: no line scanned after the signal reaches a callback; only the one
\* line that had passed the cancellation check when the signal fired may still be
\* forwarded. ParseStream returns the cancellation error exactly when it scans
\* another line after the signal; when the input ends or the scan fails first, it
\* returns nil or the scan error. Records accepted before the signal stay.
C10_CancelStopsAtNextLine ==
    /\ entries = ExpectedEntries(AcceptedLines(cbLog))
    /\ ctxDone =>
          /\ \A i \in 1..Len(cbLog) : cbLog[i].line <= cancelAt.pos
          /\ cancelAt.fwd <= Len(cbLog) /\ Len(cbLog) <= cancelAt.fwd + 1
          /\ psRet = "context canceled" <=> (pc = "returned" /\ pos > cancelAt.pos)
          /\ psRet = "nil" => pos = Len(lines)
          /\ psRet = "scan" => failAt = pos + 1

\* C10 witness: the scan was cancelled after a record had been accepted and before
\* the last line; ParseStream returned the cancellation error and the record stays.
C10_Witness ==
    /\ ctxDone /\ psRet = "context canceled"
    /\ cancelAt.fwd >= 1 /\ Len(entries) >= 1
    /\ Len(cbLog) < Len(lines)

(***************************************************************************)
(* Upload: what the handler does once ParseStream has returned             *)
(***************************************************************************)
MaxFileLines == 22  \* lines of the longest uploaded file

StatusOK == 200
StatusBadRequest == 400
StatusInternalServerError == 500

\* err != nil && !errors.Is(err, context.Canceled): the handler answers 400 and
\* returns before InsertBatch is reached
UploadParseFailed ==
    /\ pc = "returned" /\ resp = NoResp
    /\ psRet \notin {"nil", "context canceled"}
    /\ resp' = [op |-> "Upload", status |-> StatusBadRequest, code |-> "bad_request"]
    /\ pc' = "responded"
    /\ UNCHANGED <<store, now>>
    /\ UNCHANGED <<lines, failAt, pos, ctxDone, psRet, total, skipped, entries, errs, cbLog,
                   cancelAt>>
    /\ UNCHANGED <<deriveVars, parseVars, extVars, calcVars>>

\* len(entries) > 0 and InsertBatch returns an error: the handler answers 500
UploadInsertFailed ==
    /\ pc = "returned" /\ resp = NoResp
    /\ psRet \in {"nil", "context canceled"}
    /\ Len(entries) > 0
    /\ \E dbOK \in BOOLEAN :
          LET r == InsertBatchResult(store, entries, now, dbOK)
          IN  /\ r.err # "nil"
              /\ store' = r.table
    /\ resp' = [op |-> "Upload", status |-> StatusInternalServerError,
                code |-> "internal_error"]
    /\ pc' = "responded"
    /\ UNCHANGED now
    /\ UNCHANGED <<lines, failAt, pos, ctxDone, psRet, total, skipped, entries, errs, cbLog,
                   cancelAt>>
    /\ UNCHANGED <<deriveVars, parseVars, extVars, calcVars>>

\* the entries, if any, are inserted and the handler answers 200 with the counters
UploadRespond ==
    /\ pc = "returned" /\ resp = NoResp
    /\ psRet \in {"nil", "context canceled"}
    /\ \E dbOK \in BOOLEAN :
          LET r == IF Len(entries) > 0
                   THEN InsertBatchResult(store, entries, now, dbOK)
                   ELSE [err |-> "nil", table |-> store]
              inserted == IF Len(entries) > 0 THEN Len(entries) ELSE 0
          IN  /\ r.err = "nil"
              /\ store' = r.table
              /\ resp' = [op |-> "Upload", status |-> StatusOK,
                          message |-> IF total = 0 \/ (inserted = 0 /\ skipped > 0)
                                      THEN "no valid records found; nothing inserted"
                                      ELSE "upload processed",
                          total_lines |-> total, inserted |-> inserted,
                          skipped |-> skipped, errors |-> errs]
    /\ pc' = "responded"
    /\ UNCHANGED now
    /\ UNCHANGED <<lines, failAt, pos, ctxDone, psRet, total, skipped, entries, errs, cbLog,
                   cancelAt>>
    /\ UNCHANGED <<deriveVars, parseVars, extVars, calcVars>>

\* a file of n lines, all rejected except line p (p = 0: all rejected)
LongFile(n, p) ==
    [i \in 1..n |-> IF i = p THEN ValidLineA
                    ELSE IF i % 2 = 0 THEN ThreeFieldLine ELSE EmptyLineIn]

LongFiles == {LongFile(n, p) : n \in (MaxLines + 1)..MaxFileLines, p \in {0, 1}}
             \cup {LongFile(n, n) : n \in (MaxLines + 1)..MaxFileLines}

InitUpload ==
    /\ lines \in SeqsUpTo(ValidLines \cup BadLines, MaxLines) \cup LongFiles
    /\ failAt \in IF Len(lines) <= MaxLines THEN 0..(Len(lines) + 1) ELSE {0}
    /\ pos = 0 /\ pc = "scan" /\ ctxDone = FALSE /\ psRet = "running"
    /\ total = 0 /\ skipped = 0 /\ entries = <<>> /\ errs = <<>> /\ cbLog = <<>>
    /\ cancelAt = NotCancelled
    /\ RepoIdle /\ DeriveIdle /\ ParseIdle /\ CalcIdle /\ ExtIdle

Upload ==
    \/ ParseStream
    \/ UploadParseFailed
    \/ UploadInsertFailed
    \/ UploadRespond

NextUpload ==
    \/ Upload
    \/ Cancel

SpecUpload == InitUpload /\ [][NextUpload]_vars

(***************************************************************************)
(* Claims about Upload (checked under SpecUpload)                          *)
(***************************************************************************)
Responded == pc = "responded" /\ resp.op = "Upload"

\* the records of the rows of a table, in insertion order
RecordsOf(table) ==
    [i \in 1..Len(table) |->
        SQLLog(table[i].DBName, table[i].SQLQuery, table[i].ExecTimeMs, table[i].ExecCount)]

\* C11: when ParseStream was aborted by a stream-level failure (a line longer
\* than the maximum, a failing reader, cancellation), the records accepted
\* before the failure are persisted to the store by the upload.
C11_AcceptedPersistedOnStreamFailure ==
    (Responded /\ psRet \in {"scan", "context canceled"}) =>
        RecordsOf(store) = entries

\* the errors of the rejected lines of a file, in input order
RECURSIVE RejectedOf(_)
RejectedOf(ls) ==
    IF ls = <<>> THEN <<>>
    ELSE LET p == ParseLine(Head(ls))
         IN  (IF p.err # "nil" THEN <<[err |-> p.err, line |-> Head(ls)]>> ELSE <<>>)
             \o RejectedOf(Tail(ls))

\* C13: after an upload processed to the end of its stream, total_lines equals
\* inserted + skipped and the error list is exactly the first min(skipped, 20)
\* rejected lines in input order, so it never holds more than 20 entries.
C13_CountersAddUpErrorsCapped ==
    (Responded /\ psRet = "nil" /\ resp.status = 200) =>
        /\ resp.total_lines = resp.inserted + resp.skipped
        /\ resp.skipped = Len(RejectedOf(lines))
        /\ resp.errors = SubSeq(RejectedOf(lines), 1, Min({resp.skipped, 20}))
        /\ Len(resp.errors) <= 20

\* C13 witness: an upload with more than 20 rejected lines and an accepted one
\* was processed to the end and answered with 20 errors
C13_Witness ==
    /\ Responded /\ psRet = "nil" /\ resp.status = 200
    /\ resp.skipped > 20
    /\ resp.inserted = 1
    /\ Len(resp.errors) = 20

(***************************************************************************)
(* The defaults and clamps Analyze applies to its filter                   *)
(* Fractions are float64 in the code; here a fraction is a whole number of *)
(* thousandths (500 is 0.50) or the float64 value NaN, for which one       *)
(* integer that is no fraction of the inputs is set aside.                 *)
(***************************************************************************)
defaultTopPatterns == 20
maxTopPatterns == 200
maxPercentilesCount == 10

NaN == -(2^30)
defaultPercentilesFractions == <<500, 750, 900, 950, 990>>

\* int(NaN): the language leaves the result of converting a float64 that the
\* integer type cannot represent to the implementation (0 on arm64, the
\* smallest int64 on amd64, for which a large negative integer stands here)
NaNConversions == {0, -(2^24)}

\* if v < 0 { v = 0 }; if v > 1 { v = 1 }: both comparisons are false for NaN
clampFraction(v) ==
    IF v = NaN THEN NaN ELSE IF v < 0 THEN 0 ELSE IF v > 1000 THEN 1000 ELSE v

\* key := int(v*100 + 0.5)
fractionKey(v, nanKey) == IF v = NaN THEN nanKey ELSE (v * 100 + 500) \div 1000

\* the loop of sanitizeFractions: the first occurrence of every key, as float64(key)/100.0
RECURSIVE sanitizeLoop(_, _, _, _)
sanitizeLoop(in, m, out, nanKey) ==
    IF in = <<>> THEN out
    ELSE LET key == fractionKey(clampFraction(Head(in)), nanKey)
         IN  IF key \in m THEN sanitizeLoop(Tail(in), m, out, nanKey)
             ELSE sanitizeLoop(Tail(in), m \cup {key}, Append(out, key * 10), nanKey)

\* sort.Slice(out, func(i, j int) bool { return out[i] < out[j] }) over distinct values
RECURSIVE sortAscending(_)
sortAscending(q) ==
    IF q = <<>> THEN <<>>
    ELSE LET lo == Min({q[i] : i \in 1..Len(q)})
             rest == SelectSeq(q, LAMBDA x : x # lo)
         IN  <<lo>> \o sortAscending(rest)

sanitizeFractions(in, nanKey) == sortAscending(sanitizeLoop(in, {}, <<>>, nanKey))

\* Analyze: default fractions, at most maxPercentilesCount of them, sanitized
effectivePcts(pcts, nanKey) ==
    LET dflt == IF Len(pcts) = 0 THEN defaultPercentilesFractions ELSE pcts
        cut == IF Len(dflt) > maxPercentilesCount
               THEN SubSeq(dflt, 1, maxPercentilesCount) ELSE dflt
    IN  sanitizeFractions(cut, nanKey)

\* Analyze: default and ceiling of TopPatterns
effectiveTopPatterns(n) ==
    LET d == IF n <= 0 THEN defaultTopPatterns ELSE n
    IN  IF d > maxTopPatterns THEN maxTopPatterns ELSE d

\* the filter Analyze works with after its defaults section
EffectiveFilter(f, t, nanKey) ==
    [ApplyDefaults(f, t) EXCEPT !.Pcts = effectivePcts(f.Pcts, nanKey),
                                !.TopPatterns = effectiveTopPatterns(f.TopPatterns)]

(***************************************************************************)
(* Filters passed to Analyze (pure function check of the defaults)         *)
(***************************************************************************)
ZeroFilter ==
    [From |-> 0, To |-> 0, DB |-> <<>>, Limit |-> 0, MaxCap |-> 0,
     SlowMs |-> 0, FreqSlowMs |-> 0, FreqCount |-> 0, Pcts |-> <<>>, TopPatterns |-> 0]

WindowTimes == 0..(MaxClock + 1)
LimitValues == {-1, 0, 1, 499, 500, 501, 5000, 5001}
CapValues   == {-1, 0, 1, 100, 5000, 6000}
TopValues   == {-1, 0, 1, 20, 200, 201}
PctLists ==
    {<<>>, <<500>>, <<990, 500, 500>>, <<-100, 1500>>, <<254, 256, 264>>,
     [i \in 1..(maxPercentilesCount + 1) |-> 1000 - (i - 1) * 100],
     [i \in 1..(maxPercentilesCount + 1) |-> IF i <= maxPercentilesCount THEN 500 ELSE 900],
     <<NaN>>, <<500, NaN>>}

FilterCases ==
    {[ZeroFilter EXCEPT !.From = fr, !.To = to] : fr \in WindowTimes, to \in WindowTimes}
    \cup {[ZeroFilter EXCEPT !.Limit = n, !.MaxCap = c] : n \in LimitValues, c \in CapValues}
    \cup {[ZeroFilter EXCEPT !.Pcts = ps, !.TopPatterns = k] : ps \in PctLists, k \in TopValues}

InitFilter ==
    /\ fIn \in {[called |-> TRUE, f |-> f, now |-> t] : f \in FilterCases, t \in 2..MaxClock}
    /\ fOut = NoCall
    /\ stIn = NoCall /\ stOut = NoCall /\ nIn = NoCall /\ nOut = NoCall
    /\ RepoIdle /\ DeriveIdle /\ ParseIdle /\ StreamIdle /\ ExtIdle

\* the defaults section of Analyze runs on the filter
CallAnalyzeDefaults ==
    /\ fOut = NoCall
    /\ \E nanKey \in NaNConversions :
          fOut' = [called |-> TRUE, eff |-> EffectiveFilter(fIn.f, fIn.now, nanKey)]
    /\ UNCHANGED <<fIn, stIn, stOut, nIn, nOut>>
    /\ UNCHANGED <<repoVars, deriveVars, parseVars, extVars, streamVars>>

NextFilter == CallAnalyzeDefaults

SpecFilter == InitFilter /\ [][NextFilter]_vars

(***************************************************************************)
(* Claims about the effective filter (checked under SpecFilter)            *)
(***************************************************************************)
\* C14: for every requested limit n and cap c the effective limit is at least 1
\* and at most the effective hard cap (c when c > 0, otherwise 5000), and it
\* is the default 500 when n is zero or negative.
C14_LimitWithinCap ==
    fOut.called =>
        LET n == fIn.f.Limit
            c == IF fIn.f.MaxCap > 0 THEN fIn.f.MaxCap ELSE 5000
        IN  /\ fOut.eff.Limit >= 1
            /\ fOut.eff.Limit <= c
            /\ (n <= 0 => fOut.eff.Limit = 500)

\* C15: for every input filter the effective window has From <= To, also when
\* the caller passes a zero From, a zero To, or a From later than To.
C15_WindowOrdered ==
    fOut.called => fOut.eff.From <= fOut.eff.To

\* the fraction v clamped into [0,1] and rounded to two decimals, in thousandths
ClampRound(v) ==
    LET c == IF v < 0 THEN 0 ELSE IF v > 1000 THEN 1000 ELSE v
    IN  ((c + 5) \div 10) * 10

\* C16: the fraction set Analyze uses is non-empty, strictly ascending, of at
\* most 10 entries, each a multiple of 0.01 within [0,1] that is some requested
\* fraction clamped into [0,1] and rounded to two decimals; an empty request
\* gives the default set {0.50, 0.75, 0.90, 0.95, 0.99}.
C16_FractionsSanitized ==
    fOut.called =>
        LET in == fIn.f.Pcts
            out == fOut.eff.Pcts
        IN  /\ Len(out) >= 1 /\ Len(out) <= 10
            /\ \A i \in 1..(Len(out) - 1) : out[i] < out[i + 1]
            /\ \A i \in 1..Len(out) : out[i] >= 0 /\ out[i] <= 1000 /\ out[i] % 10 = 0
            /\ in # <<>> =>
                  \A i \in 1..Len(out) :
                      \E j \in 1..Len(in) : in[j] # NaN /\ out[i] = ClampRound(in[j])
            /\ in = <<>> => out = <<500, 750, 900, 950, 990>>

(***************************************************************************)
(* Statistics: percentiles                                                 *)
(* The store evaluates percentile_disc; its documented behaviour (the      *)
(* first value of the ordered set whose position reaches the fraction) is  *)
(* written out here and the text of its result is parsed as the code does. *)
(***************************************************************************)
MaxStatRows == 3    \* rows of the enumerated tables of the statistics checks

\* whereClauseArgs: created_at >= ? AND created_at <= ? [AND db_name = ?]
whereClauseArgs(table, f) ==
    {i \in 1..Len(table) :
        /\ table[i].CreatedAt >= f.From /\ table[i].CreatedAt <= f.To
        /\ (TrimSpace(f.DB) # <<>> => table[i].DBName = TrimSpace(f.DB))}

\* ORDER BY col of an ordered-set aggregate: the values in ascending order
RECURSIVE orderBy(_)
orderBy(vals) ==
    IF vals = <<>> THEN <<>>
    ELSE LET lo == Min({vals[i] : i \in 1..Len(vals)})
             k == Min({i \in 1..Len(vals) : vals[i] = lo})
         IN  <<lo>> \o orderBy(SubSeq(vals, 1, k - 1) \o SubSeq(vals, k + 1, Len(vals)))

\* percentile_disc(p) WITHIN GROUP (ORDER BY col) over a non-empty group:
\* the row at position ceil(p * N), the first row for p = 0
percentile_disc(vals, p) ==
    LET sorted == orderBy(vals)
        rownum == (p * Len(vals) + 999) \div 1000
    IN  sorted[IF rownum < 1 THEN 1 ELSE rownum]

RECURSIVE joinComma(_)
joinComma(parts) ==
    IF parts = <<>> THEN <<>>
    ELSE IF Len(parts) = 1 THEN parts[1]
    ELSE parts[1] \o <<",">> \o joinComma(Tail(parts))

\* the array the store returns for ARRAY[fractions], as the text scanned into
\* sql.NullString; the aggregate over no rows is NULL, scanned as ""
percentileArrayText(vals, pcts) ==
    IF vals = <<>> THEN <<>>
    ELSE <<"{">> \o joinComma([i \in 1..Len(pcts) |-> FormatInt(percentile_disc(vals, pcts[i]))])
         \o <<"}">>

\* strings.Split(s, ",")
RECURSIVE splitCSVRespectingQuotes(_)
splitCSVRespectingQuotes(s) ==
    LET commas == {i \in 1..Len(s) : s[i] = ","}
    IN  IF commas = {} THEN <<s>>
        ELSE <<SubSeq(s, 1, Min(commas) - 1)>>
             \o splitCSVRespectingQuotes(SubSeq(s, Min(commas) + 1, Len(s)))

\* pctKey: fmt.Sprintf("p%d", int(f*100 + 0.5))
pctKey(f) == <<"p">> \o FormatInt((f * 100 + 500) \div 1000)

\* strconv.ParseInt, then strconv.ParseFloat, on one element of the array text
parseElement(el) ==
    LET t == TrimSpace(el)
    IN  IF t # <<>> /\ \A i \in 1..Len(t) : IsDigit(t[i])
        THEN ParseInt(t)
        ELSE [ok |-> FALSE, val |-> 0]

\* a mutant of parseArrayToPctSet: the values are attached to the labels from the last
parseArrayToPctSetReversed(arr, pcts) ==
    IF TrimSpace(arr) = <<>> THEN <<>>
    ELSE LET raw == SubSeq(TrimSpace(arr), 2, Len(TrimSpace(arr)) - 1)
             vals == IF raw = <<>> THEN <<>> ELSE splitCSVRespectingQuotes(raw)
             n == Min({Len(vals), Len(pcts)})
             used == {i \in 1..n : parseElement(vals[i]).ok}
             keys == {pctKey(pcts[n + 1 - i]) : i \in used}
         IN  [k \in keys |->
                 parseElement(vals[Max({i \in used : pctKey(pcts[n + 1 - i]) = k})]).val]

\* parseArrayToPctSet: element i of the array goes under the label of pcts[i]
\* (a PercentileSet is a function from labels to values; <<>> is the empty one)
parseArrayToPctSet(arr, pcts) ==
    IF TrimSpace(arr) = <<>> THEN <<>>
    ELSE LET t == TrimSpace(arr)
             a == IF Head(t) = "{" THEN Tail(t) ELSE t
             raw == IF a # <<>> /\ a[Len(a)] = "}" THEN SubSeq(a, 1, Len(a) - 1) ELSE a
             vals == IF raw = <<>> THEN <<>> ELSE splitCSVRespectingQuotes(raw)
             n == Min({Len(vals), Len(pcts)})
             used == {i \in 1..n : parseElement(vals[i]).ok}
             keys == {pctKey(pcts[i]) : i \in used}
         IN  [k \in keys |-> parseElement(vals[Max({i \in used : pctKey(pcts[i]) = k})]).val]

\* the values of one column over the rows of a scope, in table order
columnOf(table, idx, col) ==
    LET RECURSIVE walk(_)
        walk(i) ==
            IF i > Len(table) THEN <<>>
            ELSE (IF i \in idx THEN <<table[i][col]>> ELSE <<>>) \o walk(i + 1)
    IN  walk(1)

Percentiles(table, idx, pcts) ==
    [ExecTime |-> parseArrayToPctSet(
                      percentileArrayText(columnOf(table, idx, "ExecTimeMs"), pcts), pcts),
     ExecCount |-> parseArrayToPctSet(
                      percentileArrayText(columnOf(table, idx, "ExecCount"), pcts), pcts)]

\* computePercentiles: overall and GROUP BY db_name
computePercentiles(table, f) ==
    LET idx == whereClauseArgs(table, f)
        dbs == {table[i].DBName : i \in idx}
    IN  IF Len(f.Pcts) = 0
        THEN [overall |-> [ExecTime |-> <<>>, ExecCount |-> <<>>], byDB |-> <<>>]
        ELSE [overall |-> Percentiles(table, idx, f.Pcts),
              byDB |-> [d \in dbs |->
                          Percentiles(table, {i \in idx : table[i].DBName = d}, f.Pcts)]]

(***************************************************************************)
(* Statistics: the pattern of a SQL text                                   *)
(* normalizationSQL builds an expression the store evaluates: LOWER, four  *)
(* regexp_replace(..., 'g') with CHR(63) and a whitespace collapse with    *)
(* btrim.  Each regular expression is matched character by character, as  *)
(* an advanced regular expression without flags matches: the leftmost      *)
(* match, the longest at that position, \y a word boundary.                *)
(***************************************************************************)
placeholder == "?"      \* CHR(63)

IsWordChar(c) ==
    \/ IsDigit(c) \/ c = "_"
    \/ \E i \in 1..26 : UpperChars[i] = c \/ LowerChars[i] = c
IsHexChar(c) == IsDigit(c) \/ c \in {"a","b","c","d","e","f","A","B","C","D","E","F"}

\* \y between position i - 1 and position i of s
WordBoundary(s, i) ==
    LET before == i > 1 /\ i - 1 <= Len(s) /\ IsWordChar(s[i - 1])
        after  == i >= 1 /\ i <= Len(s) /\ IsWordChar(s[i])
    IN  before # after

\* [0-9A-Fa-f]{n}, [[:digit:]]{n}: s[i..j] exists and holds only such characters
AllHex(s, i, j) == i >= 1 /\ j <= Len(s) /\ \A k \in i..j : IsHexChar(s[k])
AllDigits(s, i, j) == i >= 1 /\ j <= Len(s) /\ \A k \in i..j : IsDigit(s[k])

\* [[:digit:]]+ : the end of the longest run of digits starting at i (i - 1: none)
DigitsEnd(s, i) ==
    IF i > Len(s) \/ ~IsDigit(s[i]) THEN i - 1
    ELSE Max({j \in i..Len(s) : \A k \in i..j : IsDigit(s[k])})

\* [[:space:]]+ : the end of the longest run of whitespace starting at i (i - 1: none)
SpacesEnd(s, i) ==
    IF i > Len(s) \/ ~IsSpace(s[i]) THEN i - 1
    ELSE Max({j \in i..Len(s) : \A k \in i..j : IsSpace(s[k])})

\* LOWER(col)
LOWER(s) == [i \in 1..Len(s) |-> ToLowerChar(s[i])]

\* '([^']|'{2})*' : the ends of the matches that start with the quote before j
RECURSIVE literalEnds(_, _)
literalEnds(s, j) ==
    IF j > Len(s) THEN {}
    ELSE IF s[j] # "'" THEN literalEnds(s, j + 1)
    ELSE {j} \cup (IF j < Len(s) /\ s[j + 1] = "'" THEN literalEnds(s, j + 2) ELSE {})

\* end of the match of '([^']|'{2})*' at i (0: no match)
matchStringLiteral(s, i) ==
    IF s[i] # "'" THEN 0
    ELSE LET ends == literalEnds(s, i + 1)
         IN  IF ends = {} THEN 0 ELSE Max(ends)

\* \y[0-9A-Fa-f]{8}-[0-9A-Fa-f]{4}-[0-9A-Fa-f]{4}-[0-9A-Fa-f]{4}-[0-9A-Fa-f]{12}\y at i
matchUUID(s, i) ==
    IF /\ i + 35 <= Len(s)
       /\ WordBoundary(s, i)
       /\ AllHex(s, i, i + 7) /\ s[i + 8] = "-"
       /\ AllHex(s, i + 9, i + 12) /\ s[i + 13] = "-"
       /\ AllHex(s, i + 14, i + 17) /\ s[i + 18] = "-"
       /\ AllHex(s, i + 19, i + 22) /\ s[i + 23] = "-"
       /\ AllHex(s, i + 24, i + 35)
       /\ WordBoundary(s, i + 36)
    THEN i + 35 ELSE 0

\* ([[:space:]]|T)
timeSeparator(c) == IsSpace(c) \/ c = "T"

\* \y[[:digit:]]{4}-[[:digit:]]{2}-[[:digit:]]{2}
\*   (([[:space:]]|T)[[:digit:]]{2}:[[:digit:]]{2}:[[:digit:]]{2}(\.[[:digit:]]+){0,1}){0,1}\y at i
matchDate(s, i) ==
    LET d == i + 9
        hasDate == /\ d <= Len(s)
                   /\ WordBoundary(s, i)
                   /\ AllDigits(s, i, i + 3) /\ s[i + 4] = "-"
                   /\ AllDigits(s, i + 5, i + 6) /\ s[i + 7] = "-"
                   /\ AllDigits(s, i + 8, i + 9)
        t == d + 9
        hasTime == /\ t <= Len(s)
                   /\ timeSeparator(s[d + 1])
                   /\ AllDigits(s, d + 2, d + 3) /\ s[d + 4] = ":"
                   /\ AllDigits(s, d + 5, d + 6) /\ s[d + 7] = ":"
                   /\ AllDigits(s, d + 8, d + 9)
        fr == DigitsEnd(s, t + 2)
        hasFraction == t + 2 <= Len(s) /\ s[t + 1] = "." /\ fr >= t + 2
    IN  IF ~hasDate THEN 0
        ELSE IF hasTime /\ hasFraction /\ WordBoundary(s, fr + 1) THEN fr
        ELSE IF hasTime /\ WordBoundary(s, t + 1) THEN t
        ELSE IF WordBoundary(s, d + 1) THEN d
        ELSE 0

\* \y[[:digit:]]+(\.[[:digit:]]+){0,1}\y at i
matchNumber(s, i) ==
    LET d == DigitsEnd(s, i)
        fr == DigitsEnd(s, d + 2)
        hasFraction == d + 2 <= Len(s) /\ s[d + 1] = "." /\ fr >= d + 2
    IN  IF d < i \/ ~WordBoundary(s, i) THEN 0
        ELSE IF hasFraction /\ WordBoundary(s, fr + 1) THEN fr
        ELSE IF WordBoundary(s, d + 1) THEN d
        ELSE 0

\* [[:space:]]+ at i
matchSpaces(s, i) == IF IsSpace(s[i]) THEN SpacesEnd(s, i) ELSE 0

\* the end of the match of the regular expression re at position i of s (0: no match)
matchRE(re, s, i) ==
    CASE re = "string" -> matchStringLiteral(s, i)
      [] re = "uuid"   -> matchUUID(s, i)
      [] re = "date"   -> matchDate(s, i)
      [] re = "number" -> matchNumber(s, i)
      [] re = "space"  -> matchSpaces(s, i)

\* regexp_replace(s, re, rep, 'g'): every match, left to right, replaced by rep
regexp_replace(s, re, rep) ==
    LET RECURSIVE scan(_)
        scan(i) ==
            IF i > Len(s) THEN <<>>
            ELSE LET e == matchRE(re, s, i)
                 IN  IF e >= i THEN <<rep>> \o scan(e + 1)
                     ELSE <<s[i]>> \o scan(i + 1)
    IN  scan(1)

\* btrim(s): the spaces at both ends removed
btrim(s) ==
    LET keep == {i \in 1..Len(s) : s[i] # " "}
    IN  IF keep = {} THEN <<>> ELSE SubSeq(s, Min(keep), Max(keep))

\* a mutant of normalizationSQL: btrim is applied before the whitespace is collapsed
normalizationSQLTrimFirst(s) ==
    LET strings == regexp_replace(LOWER(s), "string", placeholder)
        uuids   == regexp_replace(strings, "uuid", placeholder)
        dates   == regexp_replace(uuids, "date", placeholder)
        numbers == regexp_replace(dates, "number", placeholder)
    IN  regexp_replace(btrim(numbers), "space", " ")

\* the value of the expression normalizationSQL builds, on the text s
normalizationSQL(s) ==
    LET lowered == LOWER(s)
        strings == regexp_replace(lowered, "string", placeholder)
        uuids   == regexp_replace(strings, "uuid", placeholder)
        dates   == regexp_replace(uuids, "date", placeholder)
        numbers == regexp_replace(dates, "number", placeholder)
    IN  btrim(regexp_replace(numbers, "space", " "))

\* a date, a time of day and a UUID as they are written in SQL texts
DateText == <<"2","0","2","4","-","0","1","-","0","1">>
TimeText == <<"1","0",":","0","0",":","0","0">>
UUIDText == <<"3","F","2","5","0","4","E","0","-","4","f","8","9","-","1","1","d","3","-","9","a","0","c","-","0","3","0","5","e","8","2","c","3","3","0","1">>

(***************************************************************************)
(* Statistics: top patterns                                                *)
(***************************************************************************)
\* the characters of the patterns in ascending order of their codes
CharOrder ==
    <<"\t", " ", "'", "*", ",", "-", ".">> \o DigitChars \o <<":", "=", "?">> \o UpperChars
        \o <<"_">> \o LowerChars
CharCode(c) == CHOOSE i \in 1..Len(CharOrder) : CharOrder[i] = c

\* pattern ASC: a sorts before b
PatternLess(a, b) ==
    \E k \in 1..(Min({Len(a), Len(b)}) + 1) :
        /\ \A j \in 1..(k - 1) : a[j] = b[j]
        /\ \/ k = Len(a) + 1 /\ k <= Len(b)
           \/ k <= Len(a) /\ k <= Len(b) /\ CharCode(a[k]) < CharCode(b[k])

\* SELECT pattern, COUNT(*) AS occurrences ... GROUP BY pattern over the rows idx
groupByPattern(table, idx) ==
    LET pattern == [i \in idx |-> normalizationSQL(table[i].SQLQuery)]
    IN  {[Pattern |-> pattern[i],
          Occurrences |-> Cardinality({j \in idx : pattern[j] = pattern[i]})] : i \in idx}

\* ORDER BY occurrences DESC: a may come before b
occurrencesDesc(a, b) == a.Occurrences >= b.Occurrences

\* ORDER BY occurrences DESC, pattern ASC: a may come before b
occurrencesDescPatternAsc(a, b) ==
    \/ a.Occurrences > b.Occurrences
    \/ a.Occurrences = b.Occurrences /\ (a.Pattern = b.Pattern \/ PatternLess(a.Pattern, b.Pattern))

\* the possible results of ORDER BY ... LIMIT n over a set of groups; the store
\* is free in the order of groups the ORDER BY does not separate
orderedLimit(groups, order, n) ==
    LET before(a, b) == IF order = "occurrences DESC" THEN occurrencesDesc(a, b)
                        ELSE occurrencesDescPatternAsc(a, b)
        c == Cardinality(groups)
        k == IF n < c THEN n ELSE c
        sorted == {q \in [1..c -> groups] :
                      /\ \A i, j \in 1..c : i # j => q[i] # q[j]
                      /\ \A i \in 1..(c - 1) : before(q[i], q[i + 1])}
    IN  {SubSeq(q, 1, k) : q \in sorted}

\* the possible overall lists of computeTopPatterns
topPatternsOverall(table, f) ==
    orderedLimit(groupByPattern(table, whereClauseArgs(table, f)),
                 "occurrences DESC", f.TopPatterns)

\* the per-database lists of computeTopPatterns: ROW_NUMBER() OVER (PARTITION BY
\* db_name ORDER BY occurrences DESC, pattern ASC) <= n, read in the same order
topPatternsByDB(table, f) ==
    LET idx == whereClauseArgs(table, f)
        dbs == {table[i].DBName : i \in idx}
    IN  [d \in dbs |->
            CHOOSE q \in orderedLimit(groupByPattern(table, {i \in idx : table[i].DBName = d}),
                                      "occurrences DESC, pattern ASC", f.TopPatterns) : TRUE]

(***************************************************************************)
(* Tables and filters of the statistics checks                             *)
(***************************************************************************)
StatEntries ==
    {<<SQLLog(<<"a">>, SqlStar, 10, 3), 2>>, <<SQLLog(<<"a">>, SqlPlain, 20, 1), 2>>,
     <<SQLLog(<<"b">>, SqlStar, 20, 2), 2>>, <<SQLLog(<<"b">>, SqlPlain, 30, 5), 3>>}

\* the rows of a table from (entry, creation time) pairs, IDs in insertion order
TableOf(es) == [i \in 1..Len(es) |-> Row(es[i][1], i, es[i][2])]

\* the exec_time_ms values 10..50 of five rows, inserted out of order
FiveRows ==
    TableOf(<<<<SQLLog(<<"a">>, SqlPlain, 30, 1), 2>>, <<SQLLog(<<"b">>, SqlPlain, 10, 4), 2>>,
              <<SQLLog(<<"a">>, SqlStar, 50, 2), 2>>, <<SQLLog(<<"b">>, SqlStar, 20, 7), 2>>,
              <<SQLLog(<<"a">>, SqlPlain, 40, 7), 2>>>>)
FourRows == SubSeq(FiveRows, 1, 4)

StatTables == {TableOf(es) : es \in SeqsUpTo(StatEntries, MaxStatRows)} \cup {FiveRows, FourRows}

StatPcts == {<<>>, <<500>>, <<1000, 0, 500>>, <<250, 750>>}
StatTops == {0, 1, 2}

StatFilters ==
    {EffectiveFilter([ZeroFilter EXCEPT !.From = 1, !.To = 2, !.DB = d, !.Pcts = ps,
                                        !.TopPatterns = k], 2, 0) :
        d \in {<<>>, <<"a">>}, ps \in StatPcts, k \in StatTops}

\* SQL texts that differ only in the value of one literal
SelectById == <<"S","E","L","E","C","T"," ","*"," ","F","R","O","M"," ","t"," ","W","H","E","R","E"," ","i","d"," ","="," ">>
NumberLiterals == {<<"1">>, <<"2">>, <<"1","0",".","5">>}
StringLiterals == {<<"'","a","'">>, <<"'","i","t","'","'","s","'">>, <<"'","'">>}
UUIDLiterals   == {UUIDText, <<"1","2","3","e","4","5","6","7","-","e","8","9","b","-","1","2","d","3","-","a","4","5","6","-","4","2","6","6","1","4","1","7","4","0","0","0">>}
DateLiterals ==
    {DateText, <<"2","0","2","5","-","1","2","-","3","1">>, DateText \o <<" ">> \o TimeText, DateText \o <<"T">> \o TimeText,
     <<"2","0","2","5","-","1","2","-","3","1","T","2","3",":","5","9",":","5","9",".","1","2","3">>}
LiteralKinds == {NumberLiterals, StringLiterals, UUIDLiterals, DateLiterals}

PairTables ==
    {TableOf(<<<<SQLLog(<<"a">>, SelectById \o l1, 10, 1), 2>>,
               <<SQLLog(<<"a">>, SelectById \o l2, 20, 1), 2>>>>) :
        l1 \in UNION LiteralKinds, l2 \in UNION LiteralKinds}
LiteralPairTables ==
    {t \in PairTables :
        /\ t[1].SQLQuery # t[2].SQLQuery
        /\ \E kind \in LiteralKinds :
              \E l1 \in kind, l2 \in kind :
                  t[1].SQLQuery = SelectById \o l1 /\ t[2].SQLQuery = SelectById \o l2}

InitStat ==
    /\ stIn \in {[called |-> TRUE, table |-> t, f |-> f, pair |-> FALSE] :
                    t \in StatTables, f \in StatFilters}
               \cup {[called |-> TRUE, table |-> t, f |-> f, pair |-> TRUE] :
                       t \in LiteralPairTables,
                       f \in {g \in StatFilters : g.DB = <<>> /\ g.Pcts = <<500>>}}
    /\ stOut = [called |-> FALSE, percentiles |-> FALSE, pct |-> <<>>,
                patterns |-> FALSE, top |-> <<>>]
    /\ fIn = NoCall /\ fOut = NoCall /\ nIn = NoCall /\ nOut = NoCall
    /\ RepoIdle /\ DeriveIdle /\ ParseIdle /\ StreamIdle /\ ExtIdle

\* Analyze calls computePercentiles with its effective filter
CallComputePercentiles ==
    /\ stOut.percentiles = FALSE
    /\ stOut' = [stOut EXCEPT !.called = TRUE, !.percentiles = TRUE,
                              !.pct = computePercentiles(stIn.table, stIn.f)]
    /\ UNCHANGED <<stIn, fIn, fOut, nIn, nOut>>
    /\ UNCHANGED <<repoVars, deriveVars, parseVars, extVars, streamVars>>

\* Analyze calls computeTopPatterns with its effective filter
CallComputeTopPatterns ==
    /\ stOut.patterns = FALSE
    /\ \E overall \in topPatternsOverall(stIn.table, stIn.f) :
          stOut' = [stOut EXCEPT !.called = TRUE, !.patterns = TRUE,
                                 !.top = [overall |-> overall,
                                          byDB |-> topPatternsByDB(stIn.table, stIn.f)]]
    /\ UNCHANGED <<stIn, fIn, fOut, nIn, nOut>>
    /\ UNCHANGED <<repoVars, deriveVars, parseVars, extVars, streamVars>>

NextStat ==
    \/ CallComputePercentiles
    \/ CallComputeTopPatterns

SpecStat == InitStat /\ [][NextStat]_vars

(***************************************************************************)
(* Claims about the statistics (checked under SpecStat)                    *)
(***************************************************************************)
\* the rows the filter of the call selects, and those of one database among them
StatScope == whereClauseArgs(stIn.table, stIn.f)
StatScopeOf(d) == {i \in StatScope : stIn.table[i].DBName = d}

\* v is the nearest-rank percentile of fraction p (in thousandths) over the
\* values of column col of the rows idx: an observed value, the smallest one
\* with at least the fraction p of the values at or below it
IsNearestRank(v, idx, col, p) ==
    LET AtOrBelow(x) == Cardinality({i \in idx : stIn.table[i][col] <= x})
        Enough(x) == AtOrBelow(x) * 1000 >= p * Cardinality(idx)
    IN  /\ \E i \in idx : stIn.table[i][col] = v
        /\ Enough(v)
        /\ \A i \in idx : Enough(stIn.table[i][col]) => v <= stIn.table[i][col]

\* the label of the fraction p: p50 for 0.50
LabelOf(p) == <<"p">> \o FormatNat(p \div 10)

ScopeNearestRank(ps, idx) ==
    \A k \in 1..Len(stIn.f.Pcts) :
        LET p == stIn.f.Pcts[k]
        IN  /\ LabelOf(p) \in DOMAIN ps.ExecTime
            /\ IsNearestRank(ps.ExecTime[LabelOf(p)], idx, "ExecTimeMs", p)
            /\ LabelOf(p) \in DOMAIN ps.ExecCount
            /\ IsNearestRank(ps.ExecCount[LabelOf(p)], idx, "ExecCount", p)

\* C17: over every non-empty filtered record set and for every requested
\* fraction p, the value under the label of p is the nearest-rank percentile
\* (an observed value, never an interpolated one), for exec_time_ms and
\* exec_count alike, overall and per database.
C17_NearestRankPerLabel ==
    (stOut.percentiles /\ StatScope # {}) =>
        /\ ScopeNearestRank(stOut.pct.overall, StatScope)
        /\ DOMAIN stOut.pct.byDB = {stIn.table[i].DBName : i \in StatScope}
        /\ \A d \in DOMAIN stOut.pct.byDB :
              ScopeNearestRank(stOut.pct.byDB[d], StatScopeOf(d))

\* C17 witness: fraction 0.50 over exec_time_ms {10,20,30,40,50} is reported as
\* 30 under p50, and three fractions were requested out of order
C17_Witness ==
    /\ stOut.percentiles
    /\ stIn.table = FiveRows /\ stIn.f.DB = <<>>
    /\ stIn.f.Pcts = <<0, 500, 1000>>
    /\ stOut.pct.overall.ExecTime[<<"p", "5", "0">>] = 30
    /\ stOut.pct.overall.ExecTime[<<"p", "1", "0", "0">>] = 50
    /\ stOut.pct.overall.ExecCount[<<"p", "0">>] = 1

(***************************************************************************)
(* SQL texts whose pattern is computed (pure function check)               *)
(***************************************************************************)
MaxTextLen == 4     \* length of the enumerated SQL texts

TextChars == {"'", "1", ".", "a", " ", "\t", "-"}

TextPrefixes == {<<>>, <<"a">>, <<"1">>, <<" ">>, <<"'">>, <<"1", ".">>, <<"-">>}
TextSuffixes == {<<>>, <<"a">>, <<"1">>, <<".">>, <<".", "5">>, <<"'">>, <<" ", " ">>,
                 <<"-", "0", "1">>}
TimeSeparators == {<<" ">>, <<"T">>, <<" ", " ">>, <<"\t">>}
TimeFractions  == {<<>>, <<".", "5">>, <<".">>}

LiteralTexts ==
    {pre \o DateText \o suf : pre \in TextPrefixes, suf \in TextSuffixes}
    \cup {pre \o UUIDText \o suf : pre \in TextPrefixes, suf \in TextSuffixes}
    \cup {pre \o DateText \o sep \o TimeText \o fr \o suf :
             pre \in TextPrefixes, sep \in TimeSeparators, fr \in TimeFractions,
             suf \in TextSuffixes}

NormTexts == SeqsUpTo(TextChars, MaxTextLen) \cup LiteralTexts

InitNorm ==
    /\ nIn \in {[called |-> TRUE, text |-> t] : t \in NormTexts}
    /\ nOut = NoCall
    /\ fIn = NoCall /\ fOut = NoCall /\ stIn = NoCall /\ stOut = NoCall
    /\ RepoIdle /\ DeriveIdle /\ ParseIdle /\ StreamIdle /\ ExtIdle

\* the store evaluates the expression on the text, and again on the pattern
CallNormalization ==
    /\ nOut = NoCall
    /\ nOut' = [called |-> TRUE, once |-> normalizationSQL(nIn.text),
                twice |-> normalizationSQL(normalizationSQL(nIn.text))]
    /\ UNCHANGED <<nIn, fIn, fOut, stIn, stOut>>
    /\ UNCHANGED <<repoVars, deriveVars, parseVars, extVars, streamVars>>

NextNorm == CallNormalization

SpecNorm == InitNorm /\ [][NextNorm]_vars

(***************************************************************************)
(* Claims about the canonicalization (checked under SpecNorm)              *)
(***************************************************************************)
\* C19: canonicalization is idempotent: the pipeline (lowercase, string
\* literals, UUIDs, ISO dates and date-times, numbers, whitespace collapse and
\* trim) applied to its own output returns that output unchanged.
C19_CanonicalizationIdempotent ==
    nOut.called => nOut.twice = nOut.once

\* C19 witness: a text with a quote, a date-time, a number and a whitespace run
\* was canonicalized to a pattern that differs from the lowered text
C19_Witness ==
    /\ nOut.called
    /\ nIn.text = <<"'">> \o DateText \o <<" ">> \o TimeText \o <<".", "5">> \o <<" ", " ">>
    /\ nOut.once = <<"'", "?">>
    /\ nOut.twice = nOut.once

(***************************************************************************)
(* Claims about the top patterns (checked under SpecStat)                  *)
(***************************************************************************)
\* a ranks before b: more occurrences, or as many and the smaller pattern text
RanksBefore(a, b) ==
    \/ a.Occurrences > b.Occurrences
    \/ a.Occurrences = b.Occurrences /\ PatternLess(a.Pattern, b.Pattern)

\* list is the first n entries of the ranking of the patterns of the rows idx
IsRankingPrefix(list, idx, n) ==
    LET groups == groupByPattern(stIn.table, idx)
    IN  /\ Len(list) = Min({n, Cardinality(groups)})
        /\ \A i \in 1..Len(list) : list[i] \in groups
        /\ \A i \in 1..(Len(list) - 1) : RanksBefore(list[i], list[i + 1])
        /\ \A g \in groups :
              (\A i \in 1..Len(list) : list[i] # g) =>
                  \A i \in 1..Len(list) : RanksBefore(list[i], g)

\* C18: in the overall scope and in each database's scope the top-pattern list
\* is ordered by occurrence count descending, ties by pattern text ascending,
\* holds at most top_patterns_count (1..200) entries and is the prefix of the
\* full ranking of the scope, so it is determined by the store and the filter.
C18_TopPatternsRanked ==
    stOut.patterns =>
        /\ stIn.f.TopPatterns \in 1..200
        /\ IsRankingPrefix(stOut.top.overall, StatScope, stIn.f.TopPatterns)
        /\ DOMAIN stOut.top.byDB = {stIn.table[i].DBName : i \in StatScope}
        /\ \A d \in DOMAIN stOut.top.byDB :
              IsRankingPrefix(stOut.top.byDB[d], StatScopeOf(d), stIn.f.TopPatterns)

\* C20: two SQL texts that differ only in the value of a literal (a number, a
\* single-quoted string, a UUID, an ISO date or date-time) have the same
\* pattern and are counted together: one pattern with occurrence count 2.
C20_LiteralsCollapse ==
    (stOut.patterns /\ stIn.pair) =>
        /\ Len(stOut.top.overall) = 1
        /\ stOut.top.overall[1].Occurrences = 2

(***************************************************************************)
(* Export: ExportCSV and ExportPDF                                         *)
(* A CSV is the sequence of the records handed to csv.Writer, each a       *)
(* sequence of fields; the empty record is the blank line. A timestamp is  *)
(* written as the digits of its tick. The PDF is the sequence of the text  *)
(* cells drawn, without their layout, and the error state of the document. *)
(***************************************************************************)
defaultTZ == <<"A","s","i","a","/","H","o","_","C","h","i","_","M","i","n","h">>

\* time.Time.Format(time.RFC3339)
FormatRFC3339(t) == FormatInt(t)

\* sort.Strings on distinct strings: ascending byte order
RECURSIVE sortStrings(_)
sortStrings(S) ==
    IF S = {} THEN <<>>
    ELSE LET lo == CHOOSE x \in S : \A y \in S \ {x} : PatternLess(x, y)
         IN  <<lo>> \o sortStrings(S \ {lo})

\* strings.Join
RECURSIVE stringsJoin(_, _)
stringsJoin(parts, sep) ==
    IF parts = <<>> THEN <<>>
    ELSE IF Len(parts) = 1 THEN parts[1]
    ELSE parts[1] \o sep \o stringsJoin(Tail(parts), sep)

\* strings.ReplaceAll(s, "\n", " ")
replaceNewlines(s) == [i \in 1..Len(s) |-> IF s[i] = "\n" THEN " " ELSE s[i]]

\* fmtPctSet: "p50=...,p75=..." in ascending order of the number in the label
fmtPctSet(ps) ==
    LET RECURSIVE walk(_)
        walk(keys) ==
            IF keys = {} THEN <<>>
            ELSE LET lo == CHOOSE k \in keys :
                               \A o \in keys : DigitsToInt(Tail(k)) <= DigitsToInt(Tail(o))
                 IN  <<lo \o <<"=">> \o FormatInt(ps[lo])>> \o walk(keys \ {lo})
    IN  stringsJoin(walk(DOMAIN ps), <<",">>)

\* the complete ReportData of Analyze: summary, anomalies, extended statistics
FullReportData(table, f, t, anomsSource, topOverall) ==
    LET base == ReportData(table, f, anomsSource)
        pct == computePercentiles(table, f)
    IN  [GeneratedAt |-> t, Timezone |-> defaultTZ,
         Summary |-> base.Summary, Anomalies |-> base.Anomalies,
         PercentilesOverall |-> pct.overall, PercentilesByDB |-> pct.byDB,
         TopPatternsOverall |-> topOverall, TopPatternsByDB |-> topPatternsByDB(table, f)]

\* the records of one list of patterns
patternRows(plist) ==
    [i \in 1..Len(plist) |-> <<plist[i].Pattern, FormatInt(plist[i].Occurrences)>>]

\* the "by_db" record of ExportCSV
byDBRecord(byDBCounts) ==
    LET parts == {k \o <<"=">> \o FormatInt(byDBCounts[k]) : k \in DOMAIN byDBCounts}
    IN  <<<<"b","y","_","d","b">>, stringsJoin(sortStrings(parts), <<";"," ">>)>>

csvAnomalyHeader ==
    <<<<"d","b","_","n","a","m","e">>, <<"e","x","e","c","_","t","i","m","e","_","m","s">>, <<"e","x","e","c","_","c","o","u","n","t">>,
      <<"r","e","a","s","o","n","s">>, <<"s","u","g","g","e","s","t","i","o","n","s">>, <<"s","q","l","_","q","u","e","r","y">>>>

\* the words of a reason or suggestion list as texts
wordText(w) ==
    CASE w = "slow_query" -> <<"s","l","o","w","_","q","u","e","r","y">>
      [] w = "frequent_and_slow" -> <<"f","r","e","q","u","e","n","t","_","a","n","d","_","s","l","o","w">>
      [] w = "select_star" -> <<"s","e","l","e","c","t","_","s","t","a","r">>
      [] w = "avoid_select_star" -> <<"a","v","o","i","d","_","s","e","l","e","c","t","_","s","t","a","r">>
      [] w = "add_index_on_where_columns" -> <<"a","d","d","_","i","n","d","e","x","_","o","n","_","w","h","e","r","e","_","c","o","l","u","m","n","s">>
      [] w = "consider_caching" -> <<"c","o","n","s","i","d","e","r","_","c","a","c","h","i","n","g">>

anomalyCells(a) ==
    <<a.DBName, FormatInt(a.ExecTimeMs), FormatInt(a.ExecCount),
      stringsJoin([i \in 1..Len(a.Reasons) |-> wordText(a.Reasons[i])], <<"|">>),
      stringsJoin([i \in 1..Len(a.Suggestions) |-> wordText(a.Suggestions[i])], <<"|">>),
      replaceNewlines(a.SQLQuery)>>

\* a mutant of anomalyTable: without anomalies the header record is left out
anomalyTableHeaderIfRows(anoms) ==
    IF anoms = <<>> THEN << <<>> >>
    ELSE << <<>>, csvAnomalyHeader >> \o [i \in 1..Len(anoms) |-> anomalyCells(anoms[i])]

\* the blank line, the header of the anomaly table and its records
anomalyTable(anoms) ==
    << <<>>, csvAnomalyHeader >> \o [i \in 1..Len(anoms) |-> anomalyCells(anoms[i])]

\* ExportCSV: the records written and the error of the writer, which is nil:
\* the writer's sink is a bytes.Buffer
ExportCSV(data) ==
    LET summary ==
            << <<<<"k","e","y">>, <<"v","a","l","u","e">>>>,
               <<<<"g","e","n","e","r","a","t","e","d","_","a","t">>, FormatRFC3339(data.GeneratedAt)>>,
               <<<<"t","i","m","e","z","o","n","e">>, data.Timezone>>,
               <<<<"f","r","o","m">>, FormatRFC3339(data.Summary.From)>>,
               <<<<"t","o">>, FormatRFC3339(data.Summary.To)>>,
               <<<<"t","o","t","a","l","_","q","u","e","r","i","e","s">>, FormatInt(data.Summary.TotalQueries)>>,
               <<<<"a","n","o","m","a","l","y","_","c","o","u","n","t">>, FormatInt(data.Summary.AnomalyCount)>>,
               <<<<"s","u","g","g","e","s","t","i","o","n","_","c","o","u","n","t">>, FormatInt(data.Summary.SuggestionCount)>> >>
        byDBRows ==
            IF DOMAIN data.Summary.ByDB # {} THEN <<byDBRecord(data.Summary.ByDB)>> ELSE <<>>
        pctOverall ==
            IF DOMAIN data.PercentilesOverall.ExecTime # {}
               \/ DOMAIN data.PercentilesOverall.ExecCount # {}
            THEN << <<>>,
                    <<<<"p","e","r","c","e","n","t","i","l","e","s","_","o","v","e","r","a","l","l","_","e","x","e","c","_","t","i","m","e","_","m","s">>, fmtPctSet(data.PercentilesOverall.ExecTime)>>,
                    <<<<"p","e","r","c","e","n","t","i","l","e","s","_","o","v","e","r","a","l","l","_","e","x","e","c","_","c","o","u","n","t">>, fmtPctSet(data.PercentilesOverall.ExecCount)>> >>
            ELSE <<>>
        RECURSIVE pctDB(_)
        pctDB(dbs) ==
            IF dbs = <<>> THEN <<>>
            ELSE LET ps == data.PercentilesByDB[Head(dbs)]
                 IN  << <<<<"p","e","r","c","e","n","t","i","l","e","s","_","d","b","_","e","x","e","c","_","t","i","m","e","_","m","s","[">> \o Head(dbs) \o <<"]">>, fmtPctSet(ps.ExecTime)>>,
                        <<<<"p","e","r","c","e","n","t","i","l","e","s","_","d","b","_","e","x","e","c","_","c","o","u","n","t","[">> \o Head(dbs) \o <<"]">>, fmtPctSet(ps.ExecCount)>> >>
                     \o pctDB(Tail(dbs))
        pctByDB ==
            IF DOMAIN data.PercentilesByDB # {}
            THEN << <<>> >> \o pctDB(sortStrings(DOMAIN data.PercentilesByDB))
            ELSE <<>>
        topOverall ==
            IF data.TopPatternsOverall # <<>>
            THEN << <<>>,
                    <<<<"t","o","p","_","p","a","t","t","e","r","n","s","_","o","v","e","r","a","l","l","_","c","o","u","n","t">>, FormatInt(Len(data.TopPatternsOverall))>>,
                    <<<<"p","a","t","t","e","r","n">>, <<"o","c","c","u","r","r","e","n","c","e","s">>>> >>
                 \o patternRows(data.TopPatternsOverall)
            ELSE <<>>
        RECURSIVE topDB(_)
        topDB(dbs) ==
            IF dbs = <<>> THEN <<>>
            ELSE LET plist == data.TopPatternsByDB[Head(dbs)]
                 IN  << <<<<"t","o","p","_","p","a","t","t","e","r","n","s","_","d","b","[">> \o Head(dbs) \o <<"]">>, FormatInt(Len(plist))>>,
                        <<<<"p","a","t","t","e","r","n">>, <<"o","c","c","u","r","r","e","n","c","e","s">>>> >>
                     \o patternRows(plist) \o << <<>> >> \o topDB(Tail(dbs))
        topByDB ==
            IF DOMAIN data.TopPatternsByDB # {}
            THEN << <<>> >> \o topDB(sortStrings(DOMAIN data.TopPatternsByDB))
            ELSE <<>>
    IN  [bytes |-> summary \o byDBRows \o pctOverall \o pctByDB \o topOverall \o topByDB
                   \o anomalyTable(data.Anomalies),
         err |-> "nil"]

\* truncateOneLine
truncateOneLine(s, n) ==
    LET one == replaceNewlines(s)
    IN  IF n <= 0 THEN <<>>
        ELSE IF Len(one) <= n THEN one
        ELSE IF n <= 3 THEN SubSeq(one, 1, n)
        ELSE SubSeq(one, 1, n - 3) \o <<".", ".", ".">>

\* the font families gofpdf.New registers; "arial" stands for helvetica
coreFonts == {"courier", "helvetica", "arial", "times", "symbol", "zapfdingbats"}

pdfHeaders ==
    <<<<"D","B">>, <<"E","x","e","c"," ","T","i","m","e"," ","(","m","s",")">>, <<"E","x","e","c"," ","C","o","u","n","t">>, <<"R","e","a","s","o","n","s">>, <<"S","u","g","g","e","s","t","i","o","n","s">>, <<"S","Q","L">>>>

\* ExportPDF: the text cells in drawing order. The document keeps the first
\* error of its calls (SetFont with a family that is not registered) and
\* Output returns it
ExportPDF(data) ==
    LET fonts == {"arial"}
        head ==
            <<<<"S","Q","L"," ","L","o","g"," ","R","e","p","o","r","t">>,
              <<"G","e","n","e","r","a","t","e","d"," ","a","t",":"," ">> \o FormatRFC3339(data.GeneratedAt) \o <<" ", "(">>
                  \o data.Timezone \o <<")">>,
              <<"R","a","n","g","e",":"," ">> \o FormatRFC3339(data.Summary.From) \o <<" "," ","t","o"," "," ">>
                  \o FormatRFC3339(data.Summary.To),
              <<"S","u","m","m","a","r","y">>,
              <<"T","o","t","a","l"," ","q","u","e","r","i","e","s",":">>, FormatInt(data.Summary.TotalQueries),
              <<"A","n","o","m","a","l","y"," ","c","o","u","n","t",":">>, FormatInt(data.Summary.AnomalyCount),
              <<"S","u","g","g","e","s","t","i","o","n"," ","c","o","u","n","t",":">>, FormatInt(data.Summary.SuggestionCount)>>
        RECURSIVE dbCells(_)
        dbCells(dbs) ==
            IF dbs = <<>> THEN <<>>
            ELSE <<<<" ","-"," ">> \o Head(dbs) \o <<":">>, FormatInt(data.Summary.ByDB[Head(dbs)])>>
                 \o dbCells(Tail(dbs))
        byDBCells ==
            IF DOMAIN data.Summary.ByDB # {}
            THEN <<<<"B","y"," ","D","B",":">>>> \o dbCells(sortStrings(DOMAIN data.Summary.ByDB))
            ELSE <<>>
        pctOverall ==
            IF DOMAIN data.PercentilesOverall.ExecTime # {}
               \/ DOMAIN data.PercentilesOverall.ExecCount # {}
            THEN <<<<"P","e","r","c","e","n","t","i","l","e","s"," ","(","O","v","e","r","a","l","l",")">>,
                   <<"e","x","e","c","_","t","i","m","e","_","m","s",":"," ">> \o fmtPctSet(data.PercentilesOverall.ExecTime),
                   <<"e","x","e","c","_","c","o","u","n","t",":"," "," "," ">> \o fmtPctSet(data.PercentilesOverall.ExecCount)>>
            ELSE <<>>
        RECURSIVE pctDB(_)
        pctDB(dbs) ==
            IF dbs = <<>> THEN <<>>
            ELSE LET ps == data.PercentilesByDB[Head(dbs)]
                 IN  <<<<"D","B",":"," ">> \o Head(dbs),
                       <<" ","-"," ","e","x","e","c","_","t","i","m","e","_","m","s",":"," ">> \o fmtPctSet(ps.ExecTime),
                       <<" ","-"," ","e","x","e","c","_","c","o","u","n","t",":"," "," "," ">> \o fmtPctSet(ps.ExecCount)>> \o pctDB(Tail(dbs))
        pctByDB ==
            IF DOMAIN data.PercentilesByDB # {}
            THEN <<<<"P","e","r","c","e","n","t","i","l","e","s"," ","(","B","y"," ","D","B",")">>>> \o pctDB(sortStrings(DOMAIN data.PercentilesByDB))
            ELSE <<>>
        RECURSIVE patternCells(_)
        patternCells(plist) ==
            IF plist = <<>> THEN <<>>
            ELSE <<truncateOneLine(Head(plist).Pattern, 160), FormatInt(Head(plist).Occurrences)>>
                 \o patternCells(Tail(plist))
        topOverall ==
            IF data.TopPatternsOverall # <<>>
            THEN <<<<"T","o","p"," ","P","a","t","t","e","r","n","s"," ","(","O","v","e","r","a","l","l",")">>, <<"P","a","t","t","e","r","n">>, <<"O","c","c","u","r","r","e","n","c","e","s">>>>
                 \o patternCells(data.TopPatternsOverall)
            ELSE <<>>
        RECURSIVE topDB(_)
        topDB(dbs) ==
            IF dbs = <<>> THEN <<>>
            ELSE <<<<"D","B",":"," ">> \o Head(dbs), <<"P","a","t","t","e","r","n">>, <<"O","c","c","u","r","r","e","n","c","e","s">>>>
                 \o patternCells(data.TopPatternsByDB[Head(dbs)]) \o topDB(Tail(dbs))
        topByDB ==
            IF DOMAIN data.TopPatternsByDB # {}
            THEN <<<<"T","o","p"," ","P","a","t","t","e","r","n","s"," ","(","B","y"," ","D","B",")">>>> \o topDB(sortStrings(DOMAIN data.TopPatternsByDB))
            ELSE <<>>
        RECURSIVE rows(_)
        rows(as) == IF as = <<>> THEN <<>> ELSE anomalyCells(Head(as)) \o rows(Tail(as))
        cells == head \o byDBCells \o pctOverall \o pctByDB \o topOverall \o topByDB
                 \o pdfHeaders \o rows(data.Anomalies)
    IN  IF fonts \subseteq coreFonts
        THEN [bytes |-> cells, err |-> "nil"]
        ELSE [bytes |-> <<>>, err |-> "pdf output"]

(***************************************************************************)
(* Reports handed to the exporters: built as Analyze builds them           *)
(***************************************************************************)
MaxExportRows == 2      \* rows of the table a report is built from

\* database names, one a prefix of others
ExportNames == {<<"a">>, <<"a", "1">>, <<"a", "-">>, <<"a", "b">>, <<"b">>}
ExportEntries ==
    {SQLLog(d, SqlPlain, 1000, 5) : d \in ExportNames}
    \cup {SQLLog(<<"a">>, SqlStar, 10, 1), SQLLog(<<"b">>, SqlPlain, 500, 100)}
ExportTables ==
    {TableOf([i \in 1..Len(es) |-> <<es[i], 2>>]) : es \in SeqsUpTo(ExportEntries, MaxExportRows)}
\* filters: the window holds every row, one database, a window without rows
ExportFilters ==
    {EffectiveFilter([ZeroFilter EXCEPT !.From = fr, !.To = fr + 1, !.DB = d], 3, 0) :
        fr \in {1, 3}, d \in {<<>>, <<"a">>}}

ExportReports ==
    UNION {{[table |-> t, f |-> f, data |-> FullReportData(t, f, 3, src, top)] :
              src \in FindOrdered(applyAnomalyFilters(applyFilters(Model(t), f), f), f.Limit),
              top \in topPatternsOverall(t, f)} :
           t \in ExportTables, f \in ExportFilters}

NoExport == [bytes |-> <<>>, err |-> "pending"]

InitExport ==
    /\ xIn \in {[called |-> TRUE, table |-> r.table, f |-> r.f, data |-> r.data] :
                   r \in ExportReports}
    /\ xOut = [called |-> FALSE, csvDone |-> FALSE, csv |-> NoExport,
               pdfDone |-> FALSE, pdf |-> NoExport]
    /\ HandlerIdle /\ RunIdle /\ AuthIdle
    /\ RepoIdle /\ DeriveIdle /\ ParseIdle /\ StreamIdle /\ CalcIdle

CallExportCSV ==
    /\ ~xOut.csvDone
    /\ xOut' = [xOut EXCEPT !.called = TRUE, !.csvDone = TRUE, !.csv = ExportCSV(xIn.data)]
    /\ UNCHANGED <<xIn, handlerVars, runVars, authVars>>
    /\ UNCHANGED <<repoVars, deriveVars, parseVars, calcVars, streamVars>>

CallExportPDF ==
    /\ ~xOut.pdfDone
    /\ xOut' = [xOut EXCEPT !.called = TRUE, !.pdfDone = TRUE, !.pdf = ExportPDF(xIn.data)]
    /\ UNCHANGED <<xIn, handlerVars, runVars, authVars>>
    /\ UNCHANGED <<repoVars, deriveVars, parseVars, calcVars, streamVars>>

NextExport ==
    \/ CallExportCSV
    \/ CallExportPDF

SpecExport == InitExport /\ [][NextExport]_vars

(***************************************************************************)
(* Claims about the exporters (checked under SpecExport)                   *)
(***************************************************************************)
\* the name=count pairs of a per-database breakdown in ascending order of the names
PairsByName(byDBCounts) ==
    LET names == sortStrings(DOMAIN byDBCounts)
    IN  [i \in 1..Len(names) |-> names[i] \o <<"=">> \o FormatInt(byDBCounts[names[i]])]

\* C21: in the CSV export the per-database counts are name=count pairs sorted
\* by database name: a pair comes before another exactly when its name is the
\* smaller one, whatever follows the name that is a prefix of another.
C21_ByDBPairsSortedByName ==
    (xOut.csvDone /\ DOMAIN xIn.data.Summary.ByDB # {}) =>
        \E i \in 1..Len(xOut.csv.bytes) :
            /\ Len(xOut.csv.bytes[i]) = 2
            /\ xOut.csv.bytes[i][1] = <<"b","y","_","d","b">>
            /\ xOut.csv.bytes[i][2] = stringsJoin(PairsByName(xIn.data.Summary.ByDB), <<";"," ">>)

\* the records of a CSV that are not blank lines
RECURSIVE NonBlank(_)
NonBlank(recs) ==
    IF recs = <<>> THEN <<>>
    ELSE (IF Head(recs) = <<>> THEN <<>> ELSE <<Head(recs)>>) \o NonBlank(Tail(recs))

\* C22: the export of a report over zero records does not fail: ExportCSV and
\* ExportPDF return output and a nil error, and the CSV is the key/value block
\* with total_queries 0 and anomaly_count 0 followed by the header record of
\* the anomaly table and no data record.
C22_EmptyReportExports ==
    (xOut.csvDone /\ xOut.pdfDone
       /\ whereClauseArgs(xIn.table, xIn.f) = {}) =>
        /\ xOut.csv.err = "nil" /\ xOut.pdf.err = "nil"
        /\ xOut.pdf.bytes # <<>>
        /\ LET recs == NonBlank(xOut.csv.bytes)
           IN  /\ Len(recs) = 9
               /\ recs[1] = <<<<"k","e","y">>, <<"v","a","l","u","e">>>>
               /\ \A i \in 1..8 : Len(recs[i]) = 2
               /\ recs[6] = <<<<"t","o","t","a","l","_","q","u","e","r","i","e","s">>, <<"0">>>>
               /\ recs[7] = <<<<"a","n","o","m","a","l","y","_","c","o","u","n","t">>, <<"0">>>>
               /\ recs[9] = csvAnomalyHeader

\* C22 witness: both exporters ran on the report of a table with rows none of
\* which the filter matches
C22_Witness ==
    /\ xOut.csvDone /\ xOut.pdfDone
    /\ Len(xIn.table) = MaxExportRows
    /\ whereClauseArgs(xIn.table, xIn.f) = {}
    /\ xOut.csv.err = "nil" /\ xOut.pdf.err = "nil"
    /\ xOut.csv.bytes[Len(xOut.csv.bytes)] = csvAnomalyHeader

(***************************************************************************)
(* Analyze with failing queries, and the report endpoints                  *)
(* The store may fail any query (connection lost, context cancelled).      *)
(* A call of Analyze is given the set of phases whose queries fail.        *)
(***************************************************************************)
\* the labels Analyze wraps the error of each phase with, in the order of the phases
phaseLabels ==
    <<"count total", "by db", "list anomalies", "count anomalies",
      "compute percentiles", "compute top patterns">>

\* ReportData{}
ZeroReportData ==
    [GeneratedAt |-> 0, Timezone |-> <<>>,
     Summary |-> [TotalQueries |-> 0, AnomalyCount |-> 0, SuggestionCount |-> 0,
                  ByDB |-> <<>>, From |-> 0, To |-> 0],
     Anomalies |-> <<>>,
     PercentilesOverall |-> [ExecTime |-> <<>>, ExecCount |-> <<>>],
     PercentilesByDB |-> <<>>, TopPatternsOverall |-> <<>>, TopPatternsByDB |-> <<>>]

\* a mutant of AnalyzeResult: the summary of the phases that succeeded is returned
AnalyzeResultPartial(table, f, t, failing, anomsSource, topOverall) ==
    LET failed == {i \in 1..Len(phaseLabels) : phaseLabels[i] \in failing}
        full == FullReportData(table, f, t, anomsSource, topOverall)
    IN  IF failed = {} THEN [data |-> full, err |-> "nil"]
        ELSE [data |-> IF Min(failed) > 1
                       THEN [ZeroReportData EXCEPT
                                !.Summary.TotalQueries = full.Summary.TotalQueries]
                       ELSE ZeroReportData,
              err |-> phaseLabels[Min(failed)]]

\* what Analyze returns for the effective filter f: the phases run in order and
\* the first one whose query fails returns ReportData{} and its wrapped error
AnalyzeResult(table, f, t, failing, anomsSource, topOverall) ==
    LET failed == {i \in 1..Len(phaseLabels) : phaseLabels[i] \in failing}
    IN  IF failed = {} THEN [data |-> FullReportData(table, f, t, anomsSource, topOverall),
                             err |-> "nil"]
        ELSE [data |-> ZeroReportData, err |-> phaseLabels[Min(failed)]]

\* writeError
writeError(status, errCode, msg) ==
    [status |-> status, contentType |-> "application/json",
     code |-> errCode, message |-> msg, body |-> <<>>]

\* the response for a download
writeBytes(contentType, b) ==
    [status |-> StatusOK, contentType |-> contentType, code |-> "", message |-> "", body |-> b]

\* the three endpoints differ in the exporter they call after Analyze; the
\* exporter of an endpoint may return bytes or fail
exporterOf(endpoint) ==
    CASE endpoint = "ReportJSON" -> "none"
      [] endpoint = "ReportCSV" -> "ExportCSV"
      [] endpoint = "ReportPDF" -> "ExportPDF"

\* the response of an endpoint from the result a of Analyze and x of its exporter
reportResponse(endpoint, a, x) ==
    IF a.err # "nil"
    THEN writeError(StatusInternalServerError, "internal_error", "could not build report")
    ELSE IF endpoint = "ReportJSON"
    THEN writeBytes("application/json", a.data)
    ELSE IF x.err # "nil"
    THEN writeError(StatusInternalServerError, "internal_error",
                    IF endpoint = "ReportCSV" THEN "could not export csv"
                    ELSE "could not export pdf")
    ELSE writeBytes(IF endpoint = "ReportCSV" THEN "text/csv; charset=utf-8"
                    ELSE "application/pdf", x.bytes)

\* one request served by an endpoint: the filter is parsed, Analyze runs, and
\* only after its success the exporter is called; calls lists the repository
\* calls made, analyze and export keep what they returned
serveReport(endpoint) ==
    /\ hOut = NoCall
    /\ IF hIn.repoNil
       THEN hOut' = [called |-> TRUE, endpoint |-> endpoint, calls |-> <<>>,
                     analyze |-> [data |-> ZeroReportData, err |-> "not called"],
                     export |-> NoExport,
                     resp |-> writeError(StatusInternalServerError, "internal_error",
                                         "repository not configured")]
       ELSE IF hIn.parseErr
       THEN hOut' = [called |-> TRUE, endpoint |-> endpoint, calls |-> <<>>,
                     analyze |-> [data |-> ZeroReportData, err |-> "not called"],
                     export |-> NoExport,
                     resp |-> writeError(StatusBadRequest, "bad_request", "invalid 'from'")]
       ELSE LET f == EffectiveFilter(hIn.f, hIn.now, 0)
                listQuery == applyAnomalyFilters(applyFilters(Model(hIn.table), f), f)
            IN  \E src \in FindOrdered(listQuery, f.Limit),
                   top \in topPatternsOverall(hIn.table, f) :
                \* the result of Analyze is a value: it is computed once
                \E a \in {AnalyzeResult(hIn.table, f, hIn.now, hIn.failing, src, top)} :
                \E exported \in {a.err = "nil" /\ endpoint # "ReportJSON"} :
                \E x \in {IF ~exported THEN NoExport
                          ELSE IF hIn.exportFails
                          THEN [bytes |-> <<>>,
                                err |-> IF endpoint = "ReportCSV" THEN "csv write"
                                        ELSE "pdf output"]
                          ELSE IF endpoint = "ReportCSV" THEN ExportCSV(a.data)
                          ELSE ExportPDF(a.data)} :
                    hOut' = [called |-> TRUE, endpoint |-> endpoint,
                             calls |-> <<"Analyze">>
                                       \o (IF exported THEN <<exporterOf(endpoint)>>
                                           ELSE <<>>),
                             analyze |-> a, export |-> x,
                             resp |-> reportResponse(endpoint, a, x)]
    /\ UNCHANGED <<hIn, exportVars, runVars, authVars>>
    /\ UNCHANGED <<repoVars, deriveVars, parseVars, calcVars, streamVars>>

ReportJSON == serveReport("ReportJSON")
ReportCSV == serveReport("ReportCSV")
ReportPDF == serveReport("ReportPDF")

\* the sets of phases that fail in one call: none, one, or two of them
FailingSets ==
    {{}} \cup {{phaseLabels[i]} : i \in 1..Len(phaseLabels)}
    \cup {{phaseLabels[i], phaseLabels[i + 2]} : i \in 1..(Len(phaseLabels) - 2)}

ReportTables ==
    {<<>>} \cup {TableOf(<<<<e, 2>>>>) : e \in ExportEntries}
    \cup {TableOf(<<<<SQLLog(<<"a">>, SqlStar, 1000, 100), 2>>,
                    <<SQLLog(<<"b">>, SqlPlain, 1000, 5), 2>>>>)}

InitReport ==
    /\ hIn \in {[called |-> TRUE, table |-> t, f |-> [ZeroFilter EXCEPT !.DB = d], now |-> 2,
                 failing |-> fs, exportFails |-> xf, repoNil |-> FALSE, parseErr |-> FALSE] :
                    t \in ReportTables, d \in {<<>>, <<"a">>}, fs \in FailingSets,
                    xf \in BOOLEAN}
               \cup {[called |-> TRUE, table |-> <<>>, f |-> ZeroFilter, now |-> 2,
                      failing |-> {}, exportFails |-> FALSE, repoNil |-> rn, parseErr |-> ~rn] :
                       rn \in BOOLEAN}
    /\ hOut = NoCall
    /\ ExportIdle /\ RunIdle /\ AuthIdle
    /\ RepoIdle /\ DeriveIdle /\ ParseIdle /\ StreamIdle /\ CalcIdle

NextReport ==
    \/ ReportJSON
    \/ ReportCSV
    \/ ReportPDF

SpecReport == InitReport /\ [][NextReport]_vars

(***************************************************************************)
(* Claims about failing analyses (checked under SpecReport)                *)
(***************************************************************************)
\* the phases of the call that fail, by position
FailedPhases == {i \in 1..Len(phaseLabels) : phaseLabels[i] \in hIn.failing}

\* C23: if a query phase of Analyze fails (total count, per-database counts,
\* anomaly list, anomaly count, percentiles, patterns), Analyze returns the
\* empty report and one error labelled with the failed phase, nothing of the
\* phases that succeeded is returned, the endpoints do not call the CSV or PDF
\* export after a failed Analyze, and an export failure is answered with
\* another message than an analysis failure.
C23_FailedPhaseDiscardsReport ==
    (hOut # NoCall /\ hOut.calls # <<>>) =>
        /\ FailedPhases # {} =>
              /\ hOut.analyze.data = ZeroReportData
              /\ hOut.analyze.err = phaseLabels[Min(FailedPhases)]
              /\ hOut.calls = <<"Analyze">>
              /\ hOut.export = NoExport
              /\ hOut.resp.status = StatusInternalServerError
              /\ hOut.resp.message = "could not build report"
              /\ hOut.resp.body = <<>>
        /\ (FailedPhases = {} /\ hOut.export.err \notin {"nil", "pending"}) =>
              /\ hOut.resp.status = StatusInternalServerError
              /\ hOut.resp.message \in {"could not export csv", "could not export pdf"}
              /\ hOut.resp.message # "could not build report"

\* C23 witness: the anomaly list query failed after the two counts succeeded on
\* a table with rows, and the CSV endpoint answered without exporting
C23_Witness ==
    /\ hOut # NoCall
    /\ hOut.endpoint = "ReportCSV"
    /\ hIn.table # <<>>
    /\ hIn.failing = {"list anomalies", "compute percentiles"}
    /\ hOut.analyze.err = "list anomalies"
    /\ hOut.calls = <<"Analyze">>
    /\ hOut.resp.message = "could not build report"

(***************************************************************************)
(* A running Analyze, query by query                                       *)
(* Analyze issues its queries one after the other on the connection pool,  *)
(* outside of a transaction; other requests may insert between two of      *)
(* them. run holds the locals of the call.                                 *)
(***************************************************************************)
RunIdleValue ==
    [called |-> FALSE, pc |-> "idle", f |-> ZeroFilter, at |-> 0, total |-> 0, byDB |-> <<>>,
     anomsSource |-> <<>>, anomalyCount |-> 0, pct |-> <<>>, data |-> ZeroReportData]

\* Analyze is called: time.Now() is read and the defaults are applied
AnalyzeStart(f) ==
    /\ run.pc = "idle"
    /\ run' = [run EXCEPT !.called = TRUE, !.pc = "count total", !.at = now,
                          !.f = EffectiveFilter(f, now, 0)]
    /\ UNCHANGED <<exportVars, handlerVars, authVars>>
    /\ UNCHANGED <<repoVars, deriveVars, parseVars, calcVars, streamVars>>

\* Summary total count
CountTotal ==
    /\ run.pc = "count total"
    /\ run' = [run EXCEPT !.pc = "by db", !.total = Count(applyFilters(Model(store), run.f))]
    /\ UNCHANGED <<exportVars, handlerVars, authVars>>
    /\ UNCHANGED <<repoVars, deriveVars, parseVars, calcVars, streamVars>>

\* By DB breakdown
ScanByDB ==
    /\ run.pc = "by db"
    /\ run' = [run EXCEPT !.pc = "list anomalies", !.byDB = byDB(store, run.f)]
    /\ UNCHANGED <<exportVars, handlerVars, authVars>>
    /\ UNCHANGED <<repoVars, deriveVars, parseVars, calcVars, streamVars>>

\* Anomalies list (limited) ordered by severity
FindAnomalies ==
    /\ run.pc = "list anomalies"
    /\ \E src \in FindOrdered(applyAnomalyFilters(applyFilters(Model(store), run.f), run.f),
                              run.f.Limit) :
          run' = [run EXCEPT !.pc = "count anomalies", !.anomsSource = src]
    /\ UNCHANGED <<exportVars, handlerVars, authVars>>
    /\ UNCHANGED <<repoVars, deriveVars, parseVars, calcVars, streamVars>>

\* Anomaly total count (full, without limit)
CountAnomalies ==
    /\ run.pc = "count anomalies"
    /\ run' = [run EXCEPT !.pc = "compute percentiles",
                          !.anomalyCount = anomalyCount(store, run.f)]
    /\ UNCHANGED <<exportVars, handlerVars, authVars>>
    /\ UNCHANGED <<repoVars, deriveVars, parseVars, calcVars, streamVars>>

\* the two queries of computePercentiles
RunComputePercentiles ==
    /\ run.pc = "compute percentiles"
    /\ run' = [run EXCEPT !.pc = "compute top patterns",
                          !.pct = computePercentiles(store, run.f)]
    /\ UNCHANGED <<exportVars, handlerVars, authVars>>
    /\ UNCHANGED <<repoVars, deriveVars, parseVars, calcVars, streamVars>>

\* the two queries of computeTopPatterns, and the report built from the locals
RunComputeTopPatterns ==
    /\ run.pc = "compute top patterns"
    /\ \E top \in topPatternsOverall(store, run.f) :
          LET anoms == [i \in 1..Len(run.anomsSource) |->
                           AnomalyDetail(run.anomsSource[i], run.f)]
          IN  run' = [run EXCEPT
                 !.pc = "done",
                 !.data =
                    [GeneratedAt |-> run.at, Timezone |-> defaultTZ,
                     Summary |->
                        [TotalQueries |-> run.total, AnomalyCount |-> run.anomalyCount,
                         SuggestionCount |->
                            Cardinality({i \in 1..Len(anoms) : Len(anoms[i].Suggestions) > 0}),
                         ByDB |-> run.byDB, From |-> run.f.From, To |-> run.f.To],
                     Anomalies |-> anoms,
                     PercentilesOverall |-> run.pct.overall,
                     PercentilesByDB |-> run.pct.byDB,
                     TopPatternsOverall |-> top,
                     TopPatternsByDB |-> topPatternsByDB(store, run.f)]]
    /\ UNCHANGED <<exportVars, handlerVars, authVars>>
    /\ UNCHANGED <<repoVars, deriveVars, parseVars, calcVars, streamVars>>

\* the window ends now (the default) or after the last tick of the clock
RunFilters ==
    {[ZeroFilter EXCEPT !.From = 1, !.Limit = 1],
     [ZeroFilter EXCEPT !.From = 1, !.To = MaxClock + 1]}
RunBatches == {<<SQLLog(<<"a">>, SqlStar, 1000, 5)>>, <<SQLLog(<<"b">>, SqlPlain, 500, 5)>>}
MaxRunInserts == 1      \* batches inserted beside the running Analyze

\* another request inserts a batch while the Analyze runs
InsertBeside(es) ==
    /\ Len(store) < MaxRunInserts
    /\ InsertBatch(es)

InitRun ==
    /\ store = <<>> /\ now = 2 /\ resp = NoResp
    /\ run = RunIdleValue
    /\ ExportIdle /\ HandlerIdle /\ AuthIdle
    /\ DeriveIdle /\ ParseIdle /\ StreamIdle /\ CalcIdle

NextRun ==
    \/ Tick
    \/ Return
    \/ \E es \in RunBatches : InsertBeside(es)
    \/ \E f \in RunFilters : AnalyzeStart(f)
    \/ CountTotal
    \/ ScanByDB
    \/ FindAnomalies
    \/ CountAnomalies
    \/ RunComputePercentiles
    \/ RunComputeTopPatterns

SpecRun == InitRun /\ [][NextRun]_vars

(***************************************************************************)
(* Claims about concurrent inserts (checked under SpecRun)                 *)
(***************************************************************************)
RECURSIVE SumOf(_)
SumOf(counts) ==
    IF DOMAIN counts = {} THEN 0
    ELSE LET d == CHOOSE x \in DOMAIN counts : TRUE
         IN  counts[d] + SumOf([x \in DOMAIN counts \ {d} |-> counts[x]])

\* C24: each analysis run is a function of one store state: whatever InsertBatch
\* calls interleave with a running Analyze, in the returned report the
\* per-database counts sum to total_queries, anomaly_count <= total_queries and
\* the anomaly list has min(anomaly_count, limit) entries.
C24_ReportOfOneStoreState ==
    run.pc = "done" =>
        /\ SumOf(run.data.Summary.ByDB) = run.data.Summary.TotalQueries
        /\ run.data.Summary.AnomalyCount <= run.data.Summary.TotalQueries
        /\ Len(run.data.Anomalies) = Min({run.data.Summary.AnomalyCount, run.f.Limit})

(***************************************************************************)
(* The other operations on the table: ListDatabases, FindByDB,             *)
(* FindSlowQueries, CountAbnormal, ListAbnormal, and a report download     *)
(***************************************************************************)
AbnormalExecTimeThreshold == 500
AbnormalExecCountThreshold == 100

\* Where("exec_time_ms > ? AND exec_count > ?", 500, 100)
abnormalRows(table) ==
    {i \in 1..Len(table) : /\ table[i].ExecTimeMs > AbnormalExecTimeThreshold
                           /\ table[i].ExecCount > AbnormalExecCountThreshold}

\* Model(&SQLLog{}).Distinct().Pluck("db_name", &names): the names, in no fixed order
ListDatabases ==
    /\ resp = NoResp
    /\ resp' = [op |-> "ListDatabases", err |-> "nil",
                names |-> {store[i].DBName : i \in 1..Len(store)}]
    /\ UNCHANGED <<store, now, deriveVars, parseVars, extVars, calcVars, streamVars>>

\* Where("db_name = ?", dbName).Order("created_at DESC, id DESC").Find(&rows)
FindByDB(dbName) ==
    LET sel == {i \in 1..Len(store) : store[i].DBName = dbName}
        n == Cardinality(sel)
        before(i, j) ==
            \/ store[i].CreatedAt > store[j].CreatedAt
            \/ store[i].CreatedAt = store[j].CreatedAt /\ store[i].ID > store[j].ID
        order == CHOOSE p \in [1..n -> sel] :
                    \A i, j \in 1..n : i < j => before(p[i], p[j])
    IN  /\ resp = NoResp
        /\ resp' = [op |-> "FindByDB", err |-> "nil", rows |-> [i \in 1..n |-> store[order[i]]]]
        /\ UNCHANGED <<store, now, deriveVars, parseVars, extVars, calcVars, streamVars>>

\* Where("db_name = ? AND exec_time_ms > ? AND exec_count > ?", dbName, 500, 100).Find:
\* the rows, in no fixed order
FindSlowQueries(dbName) ==
    /\ resp = NoResp
    /\ resp' = [op |-> "FindSlowQueries", err |-> "nil",
                results |-> {store[i] : i \in {j \in abnormalRows(store) :
                                                  store[j].DBName = dbName}}]
    /\ UNCHANGED <<store, now, deriveVars, parseVars, extVars, calcVars, streamVars>>

CountAbnormal ==
    /\ resp = NoResp
    /\ resp' = [op |-> "CountAbnormal", err |-> "nil",
                cnt |-> Cardinality(abnormalRows(store))]
    /\ UNCHANGED <<store, now, deriveVars, parseVars, extVars, calcVars, streamVars>>

\* the limit is clamped to [1, 1000], 100 by default
ListAbnormal(limit) ==
    LET l == IF limit <= 0 THEN 100 ELSE IF limit > 1000 THEN 1000 ELSE limit
    IN  /\ resp = NoResp
        /\ \E items \in FindOrdered(Where(Model(store), abnormalRows(store)), l) :
              resp' = [op |-> "ListAbnormal", err |-> "nil", items |-> items]
        /\ UNCHANGED <<store, now, deriveVars, parseVars, extVars, calcVars, streamVars>>

\* a report download: Analyze on the table, then the exporter on its report
ExportReport(f, exporter) ==
    LET eff == EffectiveFilter(f, now, 0)
        listQuery == applyAnomalyFilters(applyFilters(Model(store), eff), eff)
    IN  /\ resp = NoResp
        /\ \E src \in FindOrdered(listQuery, eff.Limit), top \in topPatternsOverall(store, eff) :
              \* the result of Analyze is a value: it is computed once
              \E a \in {AnalyzeResult(store, eff, now, {}, src, top)} :
              \E d \in {a.data} :
              \E x \in {IF exporter = "ExportCSV" THEN ExportCSV(d) ELSE ExportPDF(d)} :
                  resp' = [op |-> exporter, err |-> x.err, data |-> d, bytes |-> x.bytes]
        /\ UNCHANGED <<store, now, deriveVars, parseVars, extVars, calcVars, streamVars>>

StoreEntries == {SQLLog(<<"a">>, SqlStar, 1000, 5), SQLLog(<<"a">>, SqlPlain, 501, 101)}
StoreBatches ==
    {<<e>> : e \in StoreEntries}
    \cup {<<SQLLog(<<"a">>, SqlStar, 1000, 5), SQLLog(<<>>, SqlPlain, 1000, 5)>>}
StoreFilters == {ZeroFilter, [ZeroFilter EXCEPT !.DB = <<"a">>, !.Limit = 1]}

InitStore ==
    /\ store = <<>> /\ now = 2 /\ resp = NoResp
    /\ DeriveIdle /\ ParseIdle /\ StreamIdle /\ CalcIdle /\ ExtIdle

NextStore ==
    \/ Tick
    \/ Return
    \/ \E es \in StoreBatches : InsertBatch(es)
    \/ \E f \in StoreFilters : Analyze(f)
    \/ ListDatabases
    \/ \E d \in {<<"a">>, <<"b">>} : FindByDB(d)
    \/ \E d \in {<<"a">>, <<"b">>} : FindSlowQueries(d)
    \/ CountAbnormal
    \/ \E l \in {0, 1} : ListAbnormal(l)
    \/ \E x \in {"ExportCSV", "ExportPDF"} : ExportReport(ZeroFilter, x)

SpecStore == InitStore /\ [][NextStore]_vars

(***************************************************************************)
(* Claims about the table (checked under SpecStore)                        *)
(***************************************************************************)
\* C25: the record store is append-only: InsertBatch is the only operation
\* that changes the table and it only adds records; Analyze, ListDatabases,
\* FindByDB, CountAbnormal, ListAbnormal and the exports leave it unchanged, so
\* every record once inserted stays with its fields unchanged.
C25_AppendOnly ==
    [][/\ Len(store') >= Len(store)
       /\ SubSeq(store', 1, Len(store)) = store
       /\ store' # store => (resp'.op = "InsertBatch" /\ resp'.err = "nil")]_vars

\* C25 witness: after two inserts at different times a read returned both rows
\* of database a, the later one first, and the table holds them
C25_Witness ==
    /\ resp.op = "FindByDB"
    /\ Len(resp.rows) = 2
    /\ Len(store) = 2
    /\ store[1].CreatedAt < store[2].CreatedAt
    /\ resp.rows = <<store[2], store[1]>>


(***************************************************************************)
(* The suggestion count of a report                                        *)
(***************************************************************************)

ErrInvalidCredentials == "invalid credentials"
ErrUserExists == "user already exists"

\* SeedDefaultRoles
SeedRoles == {<<"USER">>, <<"ADMIN">>, <<"ANALYZER">>, <<"MONITOR">>, <<"TEAM_LEADER">>}

\* cfg.RefreshTTL, in ticks of the clock
RefreshTTL == 1
MaxMinted == 3      \* rows created in one run (refresh tokens, users)
Clients == {1, 2}

NoRow == [TokenHash |-> 0, UserID |-> 0, ExpiresAt |-> 0]
IdleCall ==
    [pc |-> "idle", op |-> "none", tok |-> 0, rt |-> NoRow, out |-> 0,
     id |-> 0, username |-> <<>>, email |-> <<>>, role |-> <<>>,
     status |-> 0, code |-> "", res |-> ""]

Hashes(table) == {r.TokenHash : r \in table}
rowOf(table, h) == CHOOSE r \in table : r.TokenHash = h
userByID(us, id) == CHOOSE u \in us : u.ID = id

\* the end of a call: the error of the service and what the handler writes
Finish(c, res, status, code) ==
    [c EXCEPT !.pc = "done", !.res = res, !.status = status, !.code = code]

\* a mutant of deleteToken: the row stays in the table
deleteTokenKeeping(table, rt) == table

\* Delete(&rt): DELETE ... WHERE id = rt.ID; deleting a row that is no longer
\* there affects no rows and is no error
deleteToken(table, rt) == {r \in table : r.TokenHash # rt.TokenHash}

\* GenerateRefreshToken: a fresh token, stored hashed with its expiry
newRefreshRow(n, userID, t) ==
    [TokenHash |-> n, UserID |-> userID, ExpiresAt |-> t + RefreshTTL]

\* Login, with the handler Auth.Login around it: the lookup by username or
\* email, the password check and the one INSERT of GenerateRefreshToken
Login(p, identifier, password) ==
    /\ aproc[p].pc = "idle"
    /\ minted < MaxMinted
    /\ LET c == [IdleCall EXCEPT !.op = "Login"]
           found == {u \in users : u.Username = identifier \/ u.Email = identifier}
           u == CHOOSE x \in found : TRUE
       IN  IF found = {} \/ u.PasswordHash # password
           THEN /\ aproc' = [aproc EXCEPT
                       ![p] = Finish(c, ErrInvalidCredentials, 401, "invalid_credentials")]
                /\ UNCHANGED <<tokens, minted>>
           ELSE /\ minted' = minted + 1
                /\ tokens' = tokens \cup {newRefreshRow(minted + 1, u.ID, now)}
                /\ aproc' = [aproc EXCEPT
                       ![p] = Finish([c EXCEPT !.out = minted + 1, !.id = u.ID],
                                     "nil", 200, "")]
    /\ UNCHANGED <<users, roles>>
    /\ UNCHANGED <<repoVars, deriveVars, parseVars, exportVars, handlerVars, runVars,
                   calcVars, streamVars>>

\* Refresh, first statement: the empty-token check, the lookup by token_hash
\* and the comparison of the clock with the expiry of the row found
RefreshFind(p, t) ==
    /\ aproc[p].pc = "idle"
    /\ LET c == [IdleCall EXCEPT !.op = "Refresh", !.tok = t]
       IN  IF t = 0 \/ t \notin Hashes(tokens)
           THEN aproc' = [aproc EXCEPT
                    ![p] = Finish(c, ErrInvalidCredentials, 401, "invalid_refresh")]
           ELSE LET rt == rowOf(tokens, t)
                IN  aproc' = [aproc EXCEPT
                        ![p] = [c EXCEPT !.rt = rt,
                                         !.pc = IF now > rt.ExpiresAt
                                                THEN "expired" ELSE "found"]]
    /\ UNCHANGED <<users, tokens, roles, minted>>
    /\ UNCHANGED <<repoVars, deriveVars, parseVars, exportVars, handlerVars, runVars,
                   calcVars, streamVars>>

\* Refresh, expired token: delete the row and reject
RefreshExpired(p) ==
    /\ aproc[p].pc = "expired"
    /\ tokens' = deleteToken(tokens, aproc[p].rt)
    /\ aproc' = [aproc EXCEPT
           ![p] = Finish(aproc[p], ErrInvalidCredentials, 401, "invalid_refresh")]
    /\ UNCHANGED <<users, roles, minted>>
    /\ UNCHANGED <<repoVars, deriveVars, parseVars, exportVars, handlerVars, runVars,
                   calcVars, streamVars>>

\* Refresh: load the user of the row
RefreshLoadUser(p) ==
    /\ aproc[p].pc = "found"
    /\ IF \E u \in users : u.ID = aproc[p].rt.UserID
       THEN aproc' = [aproc EXCEPT ![p].pc = "loaded", ![p].id = aproc[p].rt.UserID]
       ELSE aproc' = [aproc EXCEPT
                ![p] = Finish(aproc[p], "load user", 500, "server_error")]
    /\ UNCHANGED <<users, tokens, roles, minted>>
    /\ UNCHANGED <<repoVars, deriveVars, parseVars, exportVars, handlerVars, runVars,
                   calcVars, streamVars>>

\* Refresh, rotation: delete the old row
RefreshDeleteOld(p) ==
    /\ aproc[p].pc = "loaded"
    /\ tokens' = deleteToken(tokens, aproc[p].rt)
    /\ aproc' = [aproc EXCEPT ![p].pc = "deleted"]
    /\ UNCHANGED <<users, roles, minted>>
    /\ UNCHANGED <<repoVars, deriveVars, parseVars, exportVars, handlerVars, runVars,
                   calcVars, streamVars>>

\* Refresh, rotation: GenerateRefreshToken stores the new row, GenerateToken
\* signs the access token, and the handler answers 200
RefreshStoreNew(p) ==
    /\ aproc[p].pc = "deleted"
    /\ minted < MaxMinted
    /\ minted' = minted + 1
    /\ tokens' = tokens \cup {newRefreshRow(minted + 1, aproc[p].id, now)}
    /\ aproc' = [aproc EXCEPT
           ![p] = Finish([aproc[p] EXCEPT !.out = minted + 1], "nil", 200, "")]
    /\ UNCHANGED <<users, roles>>
    /\ UNCHANGED <<repoVars, deriveVars, parseVars, exportVars, handlerVars, runVars,
                   calcVars, streamVars>>

\* the client has read the response
AuthReturn(p) ==
    /\ aproc[p].pc = "done"
    /\ aproc' = [aproc EXCEPT ![p] = IdleCall]
    /\ UNCHANGED <<users, tokens, roles, minted>>
    /\ UNCHANGED <<repoVars, deriveVars, parseVars, exportVars, handlerVars, runVars,
                   calcVars, streamVars>>

\* the passing of time while calls are in progress
AuthTick ==
    /\ now < MaxClock
    /\ now' = now + 1
    /\ UNCHANGED <<store, resp, deriveVars, parseVars, extVars, calcVars, streamVars>>

TokenUsers ==
    {[ID |-> 1, Username |-> <<"alice">>, Email |-> <<"alice@x">>,
      PasswordHash |-> "pw", Role |-> <<"USER">>]}

InitTokens ==
    /\ store = <<>> /\ now = 0 /\ resp = NoResp
    /\ DeriveIdle /\ ParseIdle /\ StreamIdle /\ CalcIdle
    /\ ExportIdle /\ HandlerIdle /\ RunIdle
    /\ users = TokenUsers /\ tokens = {} /\ roles = SeedRoles
    /\ aproc = [p \in Clients |-> IdleCall] /\ minted = 0

NextTokens ==
    \/ AuthTick
    \/ \E p \in Clients, i \in {<<"alice">>, <<"alice@x">>, <<"bob">>},
          w \in {"pw", "bad"} : Login(p, i, w)
    \/ \E p \in Clients, t \in 0..MaxMinted : RefreshFind(p, t)
    \/ \E p \in Clients : RefreshExpired(p)
    \/ \E p \in Clients : RefreshLoadUser(p)
    \/ \E p \in Clients : RefreshDeleteOld(p)
    \/ \E p \in Clients : RefreshStoreNew(p)
    \/ \E p \in Clients : AuthReturn(p)

SpecTokens == InitTokens /\ [][NextTokens]_vars

(***************************************************************************)
(* Claims about refresh tokens (checked under SpecTokens)                  *)
(***************************************************************************)
\* a call of Refresh ends in this step
RefreshEnds(p) ==
    aproc[p].pc # "done" /\ aproc'[p].pc = "done" /\ aproc'[p].op = "Refresh"

\* C26: refresh-token rotation: a successful Refresh with token T deletes T and
\* stores a new refresh token that a Refresh would accept; a token that left the
\* table never comes back, and a Refresh that presents a token not in the table
\* fails with ErrInvalidCredentials; an expired token is deleted and rejected.
C26_RefreshRotates ==
    [][ /\ \A t \in 1..minted : t \notin Hashes(tokens) => t \notin Hashes(tokens')
        /\ \A p \in Clients :
              /\ (/\ aproc[p].pc = "idle" /\ aproc'[p].op = "Refresh"
                  /\ aproc'[p].tok \notin Hashes(tokens))
                    => aproc'[p].pc = "done" /\ aproc'[p].res = ErrInvalidCredentials
              /\ (aproc[p].pc = "expired" /\ aproc'[p] # aproc[p])
                    => /\ RefreshEnds(p)
                       /\ aproc'[p].res = ErrInvalidCredentials
                       /\ aproc'[p].status = 401
              /\ RefreshEnds(p) =>
                    /\ aproc'[p].tok \notin Hashes(tokens')
                    /\ IF aproc'[p].res = "nil"
                       THEN /\ aproc'[p].out # aproc'[p].tok
                            /\ \E r \in tokens' :
                                  /\ r.TokenHash = aproc'[p].out
                                  /\ r.UserID = aproc'[p].rt.UserID
                                  /\ now' <= r.ExpiresAt
                       ELSE aproc'[p].res = ErrInvalidCredentials
      ]_vars

\* C26 witness: one client has exchanged token T, and another client that
\* presented T found no row and was rejected.
C26_Witness ==
    \E p, q \in Clients :
        /\ p # q
        /\ aproc[p].pc = "done" /\ aproc[p].op = "Refresh" /\ aproc[p].res = "nil"
        /\ aproc[q].pc = "done" /\ aproc[q].op = "Refresh"
        /\ aproc[q].tok = aproc[p].tok
        /\ aproc[q].rt = NoRow
        /\ aproc[q].res = ErrInvalidCredentials
        /\ aproc[p].out \in Hashes(tokens)

\* C29: of the Refresh calls that present the same valid refresh token at most
\* one succeeds, and the user then holds one new token derived from it.
C29_ExchangedAtMostOnce ==
    \A p, q \in Clients :
        (/\ p # q
         /\ aproc[p].pc = "done" /\ aproc[p].op = "Refresh" /\ aproc[p].res = "nil"
         /\ aproc[q].pc = "done" /\ aproc[q].op = "Refresh" /\ aproc[q].res = "nil")
            => aproc[p].tok # aproc[q].tok

(***************************************************************************)
(* Authentication: the users and the endpoints of the administrators       *)
(***************************************************************************)
MaxUsers == 4       \* rows of the users table
MaxNameLen == 3     \* pieces of a user name (a deletion appends two pieces)

kAdmin == <<"ADMIN">>
kInactive == "_INACTIVE"
kDeleted == <<"DELETED">>

\* allowedRoles of the handlers CreateUser and UpdateUserRole
allowedRoles == {<<"USER">>, <<"ANALYZER">>, <<"MONITOR">>, <<"TEAM_LEADER">>}

\* Count of the rows WHERE username = ? OR email = ?, compared with zero
nameTaken(us, username, email) ==
    \E u \in us : u.Username = username \/ u.Email = email

\* the unique indexes on username and on email, and the foreign key of role
rowAllowed(us, rs, row) ==
    /\ \A u \in us : u.ID # row.ID => (u.Username # row.Username /\ u.Email # row.Email)
    /\ row.Role \in rs

hasInactiveSuffix(role) == Len(role) > 1 /\ role[Len(role)] = kInactive

\* fmt.Sprintf("%s_deleted_%d", s, timestamp)
deletedName(s, timestamp) == s \o <<"_deleted_">> \o FormatInt(timestamp)

replaceRow(us, old, new) == (us \ {old}) \cup {new}

\* Service.UpdateUserStatus and the statuses the handler maps its errors to
UpdateUserStatusResult(us, rs, userID, active) ==
    IF ~(\E u \in us : u.ID = userID)
    THEN [users |-> us, err |-> "user not found", status |-> 404, code |-> "user_not_found"]
    ELSE LET user == userByID(us, userID)
             newRole == IF active
                        THEN IF hasInactiveSuffix(user.Role)
                             THEN SubSeq(user.Role, 1, Len(user.Role) - 1)
                             ELSE user.Role
                        ELSE IF hasInactiveSuffix(user.Role)
                             THEN user.Role
                             ELSE Append(user.Role, kInactive)
             new == [user EXCEPT !.Role = newRole]
         IN  IF user.Role = kAdmin
             THEN [users |-> us, err |-> "cannot modify ADMIN user status",
                   status |-> 400, code |-> "invalid_operation"]
             ELSE IF ~rowAllowed(us, rs, new)
             THEN [users |-> us, err |-> "update user status",
                   status |-> 500, code |-> "server_error"]
             ELSE [users |-> replaceRow(us, user, new), err |-> "nil",
                   status |-> 200, code |-> ""]

\* a mutant of DeleteUserResult: the role of the user is not looked at
DeleteUserUnguarded(us, toks, rs, userID, timestamp) ==
    IF ~(\E u \in us : u.ID = userID)
    THEN [users |-> us, tokens |-> toks, err |-> "user not found",
          status |-> 404, code |-> "user_not_found"]
    ELSE LET user == userByID(us, userID)
             new == [user EXCEPT !.Username = deletedName(user.Username, timestamp),
                                 !.Email = deletedName(user.Email, timestamp),
                                 !.Role = kDeleted]
         IN  IF ~rowAllowed(us, rs, new)
             THEN [users |-> us, tokens |-> toks, err |-> "delete user",
                   status |-> 500, code |-> "server_error"]
             ELSE [users |-> replaceRow(us, user, new),
                   tokens |-> {r \in toks : r.UserID # userID},
                   err |-> "nil", status |-> 204, code |-> ""]

\* Service.DeleteUser and the statuses the handler maps its errors to
DeleteUserResult(us, toks, rs, userID, timestamp) ==
    IF ~(\E u \in us : u.ID = userID)
    THEN [users |-> us, tokens |-> toks, err |-> "user not found",
          status |-> 404, code |-> "user_not_found"]
    ELSE LET user == userByID(us, userID)
             new == [user EXCEPT !.Username = deletedName(user.Username, timestamp),
                                 !.Email = deletedName(user.Email, timestamp),
                                 !.Role = kDeleted]
         IN  IF user.Role = kAdmin
             THEN [users |-> us, tokens |-> toks, err |-> "cannot delete ADMIN user",
                   status |-> 400, code |-> "invalid_operation"]
             ELSE IF ~rowAllowed(us, rs, new)
             THEN [users |-> us, tokens |-> toks, err |-> "delete user",
                   status |-> 500, code |-> "server_error"]
             ELSE [users |-> replaceRow(us, user, new),
                   tokens |-> {r \in toks : r.UserID # userID},
                   err |-> "nil", status |-> 204, code |-> ""]

\* Service.UpdateUserRole and the statuses the handler maps its errors to
UpdateUserRoleResult(us, rs, userID, newRole) ==
    IF newRole \notin rs
    THEN [users |-> us, err |-> "invalid role", status |-> 500, code |-> "server_error"]
    ELSE IF ~(\E u \in us : u.ID = userID)
    THEN [users |-> us, err |-> "user not found", status |-> 404, code |-> "user_not_found"]
    ELSE LET user == userByID(us, userID)
             new == [user EXCEPT !.Role = newRole]
         IN  IF user.Role = kAdmin
             THEN [users |-> us, err |-> "cannot modify ADMIN user role",
                   status |-> 400, code |-> "invalid_operation"]
             ELSE IF newRole = kAdmin
             THEN [users |-> us, err |-> "cannot assign ADMIN role",
                   status |-> 400, code |-> "invalid_operation"]
             ELSE [users |-> replaceRow(us, user, new), err |-> "nil",
                   status |-> 200, code |-> ""]

otherVars == <<repoVars, deriveVars, parseVars, exportVars, handlerVars, runVars,
               calcVars, streamVars>>

\* Register, with the handler Auth.Register around it: the check of the fields and
\* the count of the users that hold the username or the email
RegisterCheck(p, username, email) ==
    /\ aproc[p].pc = "idle"
    /\ LET c == [IdleCall EXCEPT !.op = "Register", !.username = username,
                                 !.email = email, !.role = <<"USER">>]
       IN  aproc' = [aproc EXCEPT ![p] =
               IF username = <<>> \/ email = <<>>
               THEN Finish(c, "missing required fields", 500, "server_error")
               ELSE IF nameTaken(users, username, email)
               THEN Finish(c, ErrUserExists, 409, "user_exists")
               ELSE [c EXCEPT !.pc = "checked"]]
    /\ UNCHANGED <<users, tokens, roles, minted, otherVars>>

\* Register: the INSERT of the user row
RegisterCreate(p) ==
    /\ aproc[p].pc = "checked" /\ aproc[p].op = "Register"
    /\ Cardinality(users) < MaxUsers
    /\ LET u == [ID |-> Cardinality(users) + 1, Username |-> aproc[p].username,
                 Email |-> aproc[p].email, PasswordHash |-> "pw", Role |-> <<"USER">>]
       IN  IF rowAllowed(users, roles, u)
           THEN /\ users' = users \cup {u}
                /\ aproc' = [aproc EXCEPT
                       ![p] = Finish([aproc[p] EXCEPT !.id = u.ID], "nil", 201, "")]
           ELSE /\ users' = users
                /\ aproc' = [aproc EXCEPT
                       ![p] = Finish(aproc[p], "create user", 500, "server_error")]
    /\ UNCHANGED <<tokens, roles, minted, otherVars>>

\* the handler Auth.CreateUser up to the INSERT: the checks of the role by the
\* handler, then by the service the check of the fields, the count of the role
\* and the count of the users that hold the username or the email
CreateUserCheck(p, username, email, role) ==
    /\ aproc[p].pc = "idle"
    /\ LET c == [IdleCall EXCEPT !.op = "CreateUser", !.username = username,
                                 !.email = email, !.role = role]
       IN  aproc' = [aproc EXCEPT ![p] =
               IF role = kAdmin
               THEN Finish(c, "cannot create ADMIN users", 400, "invalid_role")
               ELSE IF role \notin allowedRoles
               THEN Finish(c, "invalid role specified", 400, "invalid_role")
               ELSE IF username = <<>> \/ email = <<>>
               THEN Finish(c, "missing required fields", 500, "server_error")
               ELSE IF role \notin roles
               THEN Finish(c, "invalid role", 500, "server_error")
               ELSE IF nameTaken(users, username, email)
               THEN Finish(c, ErrUserExists, 409, "user_exists")
               ELSE [c EXCEPT !.pc = "checked"]]
    /\ UNCHANGED <<users, tokens, roles, minted, otherVars>>

\* CreateUser: the INSERT of the user row
CreateUserCreate(p) ==
    /\ aproc[p].pc = "checked" /\ aproc[p].op = "CreateUser"
    /\ Cardinality(users) < MaxUsers
    /\ LET u == [ID |-> Cardinality(users) + 1, Username |-> aproc[p].username,
                 Email |-> aproc[p].email, PasswordHash |-> "pw",
                 Role |-> aproc[p].role]
       IN  IF rowAllowed(users, roles, u)
           THEN /\ users' = users \cup {u}
                /\ aproc' = [aproc EXCEPT
                       ![p] = Finish([aproc[p] EXCEPT !.id = u.ID], "nil", 201, "")]
           ELSE /\ users' = users
                /\ aproc' = [aproc EXCEPT
                       ![p] = Finish(aproc[p], "create user", 500, "server_error")]
    /\ UNCHANGED <<tokens, roles, minted, otherVars>>

\* the handler Auth.UpdateUserStatus
UpdateUserStatus(p, userID, active) ==
    /\ aproc[p].pc = "idle"
    /\ LET c == [IdleCall EXCEPT !.op = "UpdateUserStatus", !.id = userID]
           r == UpdateUserStatusResult(users, roles, userID, active)
       IN  /\ users' = r.users
           /\ aproc' = [aproc EXCEPT ![p] = Finish(c, r.err, r.status, r.code)]
    /\ UNCHANGED <<tokens, roles, minted, otherVars>>

\* the handler Auth.DeleteUser, called by the administrator adminID
DeleteUser(p, adminID, userID) ==
    /\ aproc[p].pc = "idle"
    /\ \A u \in users : u.ID = userID => Len(u.Username) + 2 <= MaxNameLen
    /\ LET c == [IdleCall EXCEPT !.op = "DeleteUser", !.id = userID]
           r == DeleteUserResult(users, tokens, roles, userID, now)
       IN  IF userID = adminID
           THEN /\ aproc' = [aproc EXCEPT ![p] =
                       Finish(c, "cannot delete your own account", 400,
                              "invalid_operation")]
                /\ UNCHANGED <<users, tokens>>
           ELSE /\ users' = r.users
                /\ tokens' = r.tokens
                /\ aproc' = [aproc EXCEPT ![p] = Finish(c, r.err, r.status, r.code)]
    /\ UNCHANGED <<roles, minted, otherVars>>

\* the handler Auth.UpdateUserRole
UpdateUserRole(p, userID, newRole) ==
    /\ aproc[p].pc = "idle"
    /\ LET c == [IdleCall EXCEPT !.op = "UpdateUserRole", !.id = userID,
                                 !.role = newRole]
           r == UpdateUserRoleResult(users, roles, userID, newRole)
       IN  IF newRole \notin allowedRoles
           THEN /\ aproc' = [aproc EXCEPT ![p] =
                       Finish(c, "invalid role specified", 400, "invalid_role")]
                /\ UNCHANGED users
           ELSE /\ users' = r.users
                /\ aproc' = [aproc EXCEPT ![p] = Finish(c, r.err, r.status, r.code)]
    /\ UNCHANGED <<tokens, roles, minted, otherVars>>

\* the roles of the seed, and a table to which the roles that UpdateUserStatus
\* and DeleteUser write have been added
ExtendedRoles == SeedRoles \cup {<<"USER", kInactive>>, <<"ANALYZER", kInactive>>, kDeleted}

AdminUsers ==
    {[ID |-> 1, Username |-> <<"root">>, Email |-> <<"root@x">>,
      PasswordHash |-> "pw", Role |-> kAdmin],
     [ID |-> 2, Username |-> <<"sys">>, Email |-> <<"sys@x">>,
      PasswordHash |-> "pw", Role |-> kAdmin]}

InitUsers ==
    /\ store = <<>> /\ now = 2 /\ resp = NoResp
    /\ DeriveIdle /\ ParseIdle /\ StreamIdle /\ CalcIdle
    /\ ExportIdle /\ HandlerIdle /\ RunIdle
    /\ users = AdminUsers /\ tokens = {}
    /\ roles \in {SeedRoles, ExtendedRoles}
    /\ aproc = [p \in Clients |-> IdleCall] /\ minted = 0

\* client 1 is the administrator root, client 2 a visitor who registers
Administrator == Min(Clients)
Visitor == Max(Clients)
rootID == (CHOOSE u \in AdminUsers : u.Username = <<"root">>).ID
UserInputs ==
    {<<<<"bob">>, <<"bob@x">>>>, <<<<"carol">>, <<"bob@x">>>>, <<<<>>, <<"bob@x">>>>}
RoleInputs == {<<"ANALYZER">>, kAdmin, <<"GUEST">>}

NextUsers ==
    \/ AuthTick
    \/ \E i \in UserInputs : RegisterCheck(Visitor, i[1], i[2])
    \/ RegisterCreate(Visitor)
    \/ \E i \in UserInputs, r \in RoleInputs : CreateUserCheck(Administrator, i[1], i[2], r)
    \/ CreateUserCreate(Administrator)
    \/ \E id \in 1..MaxUsers, a \in BOOLEAN : UpdateUserStatus(Administrator, id, a)
    \/ \E id \in 1..MaxUsers : DeleteUser(Administrator, rootID, id)
    \/ \E id \in 1..MaxUsers, r \in RoleInputs : UpdateUserRole(Administrator, id, r)
    \/ \E p \in Clients : AuthReturn(p)

SpecUsers == InitUsers /\ [][NextUsers]_vars

(***************************************************************************)
(* Claims about the users (checked under SpecUsers)                        *)
(***************************************************************************)
\* a call of Register or CreateUser with all fields and a role it may set
\* has ended at client p
CreationEnded(p) ==
    /\ aproc[p].pc = "done"
    /\ aproc[p].op \in {"Register", "CreateUser"}
    /\ aproc[p].username # <<>> /\ aproc[p].email # <<>>
    /\ aproc[p].role \in allowedRoles

\* C27: no two users share a username or an email, and a call of Register or
\* CreateUser that did not create its user because the username or the email
\* was held by an existing user failed with ErrUserExists (409 user_exists),
\* also when two such calls run concurrently.
C27_UniqueOrUserExists ==
    /\ \A u, v \in users :
          u # v => (u.Username # v.Username /\ u.Email # v.Email)
    /\ \A p \in Clients :
          (CreationEnded(p) /\ aproc[p].res # "nil")
             => /\ aproc[p].res = ErrUserExists
                /\ aproc[p].status = 409
                /\ aproc[p].code = "user_exists"

\* the users with role ADMIN
Admins(us) == {u \in us : u.Role = kAdmin}

\* the call that ends at client p in this step tries to create an ADMIN user,
\* to assign the role ADMIN, or to change or delete an ADMIN user
AdminAttempt(p) ==
    /\ aproc[p].pc # "done" /\ aproc'[p].pc = "done"
    /\ \/ aproc'[p].op = "CreateUser" /\ aproc'[p].role = kAdmin
       \/ aproc'[p].op = "UpdateUserRole" /\ aproc'[p].role = kAdmin
       \/ /\ aproc'[p].op \in {"UpdateUserRole", "UpdateUserStatus", "DeleteUser"}
          /\ \E u \in Admins(users) : u.ID = aproc'[p].id

====
